---- MODULE Spec2Model ----
(***************************************************************************)
(* University LMS: the assignment / quiz submission and grading workflow.  *)
(*                                                                         *)
(* Every HTTP request runs one service method in a database session of its *)
(* own (database/session.py get_db).  A request is a slot of Req; the      *)
(* service method is cut into steps at its database statements, so that    *)
(* the statements of concurrent requests interleave.  The session has no   *)
(* isolation level set (session.py:18-31), so every statement reads the    *)
(* rows committed at the moment it runs.  A repository method's INSERT or  *)
(* UPDATE (flush) and the service's commit that follows it are one step:   *)
(* rows flushed but not yet committed are invisible to other sessions, and *)
(* a statement that collides with them on a unique constraint waits for    *)
(* the commit.                                                             *)
(***************************************************************************)
EXTENDS Integers, FiniteSets, Sequences, TLC

VARIABLES
    clock,                   \* the current instant (datetime.now / func.now)
    assignments,             \* table assignments
    quizzes,                 \* table quizzes
    questions,               \* table questions
    question_options,        \* table question_options
    assignment_submissions,  \* table assignment_submissions
    quiz_file_submissions,   \* table quiz_file_submissions
    quiz_attempts,           \* table quiz_attempts
    quiz_answers,            \* table quiz_answers
    assignment_grades,       \* table assignment_grades
    quiz_grades,             \* table quiz_grades
    req                      \* the requests: method, arguments, locals, position

vars == <<clock, assignments, quizzes, questions, question_options,
          assignment_submissions, quiz_file_submissions, quiz_attempts,
          quiz_answers, assignment_grades, quiz_grades, req>>

tables == <<assignments, quizzes, questions, question_options,
            assignment_submissions, quiz_file_submissions, quiz_attempts,
            quiz_answers, assignment_grades, quiz_grades>>

-----------------------------------------------------------------------------
(* Bounds *)

\* Number of requests issued in one behaviour.
MaxReq == 2

\* Last instant of the clock.
MaxClock == 2

Req == 1..MaxReq

-----------------------------------------------------------------------------
(* Optional values: None is the empty set, a value v is {v}. *)

None == {}

Some(v) == {v}

Get(o) == CHOOSE v \in o : TRUE

\* Python truthiness of an Optional[int] / Optional[float]: None and 0 are false.
Truthy(o) == o # None /\ o # Some(0)

-----------------------------------------------------------------------------
(* Users and uploaded files: external collaborators, fixed in a behaviour. *)

Students == {"s1", "s2"}

Teachers == {"t1", "t2"}

RoleOf(user_id) ==
    CASE user_id = "t1" -> "Professor"
      [] user_id = "t2" -> "AssociateTeacher"
      [] OTHER -> "Student"

TeacherRoles == {"Professor", "AssociateTeacher"}

\* Rows of uploaded_files that are active; "f0" names no row.
uploaded_files ==
    { [file_id |-> "f1", uploaded_by |-> "s1"],
      [file_id |-> "f2", uploaded_by |-> "s2"],
      [file_id |-> "f3", uploaded_by |-> "t1"] }

get_file_by_id(file_id) == { f \in uploaded_files : f.file_id = file_id }

\* `not file or file.uploaded_by != user_id`
\* The check without the comparison of the uploader.
InvalidFile_missing(file_id, user_id) == get_file_by_id(file_id) = None

\* `not file or file.uploaded_by != user_id`
InvalidFile(file_id, user_id) ==
    LET file == get_file_by_id(file_id)
    IN  file = None \/ Get(file).uploaded_by # user_id

-----------------------------------------------------------------------------
(* Requests *)

Idle ==
    [ op |-> "idle", pc |-> "idle", result |-> "none",
      user_id |-> "", role |-> "", target |-> 0, file_id |-> "",
      data |-> None, began |-> 0, now |-> 0, loaded |-> None, seen |-> None ]

\* A request enters its service method: the session's transaction begins.
NewReq(op, pc, user_id, role, target, file_id, data) ==
    [ op |-> op, pc |-> pc, result |-> "none",
      user_id |-> user_id, role |-> role, target |-> target,
      file_id |-> file_id, data |-> data, began |-> clock, now |-> 0,
      loaded |-> None, seen |-> None ]

\* The method raises (or returns): the request is over.
Finish(r, result) ==
    req' = [req EXCEPT ![r].pc = "done", ![r].result = result]

Goto(r, pc) == req' = [req EXCEPT ![r].pc = pc]

At(r, op, pc) == req[r].op = op /\ req[r].pc = pc

Done(r) == req[r].pc = "done"

\* The value the database gives a column with server_default=func.now(): the
\* configured PostgreSQL evaluates now() as the start of the transaction,
\* other engines behind DATABASE_URL as the time of the statement.
ServerNow(r) == {req[r].began, clock}

Tick ==
    /\ clock < MaxClock
    /\ clock' = clock + 1
    /\ UNCHANGED <<tables, req>>

-----------------------------------------------------------------------------
(* Unique constraints *)

\* UniqueConstraint("assignment_id", "student_id")
uq_one_submission_per_student(assignment_id, student_id) ==
    \A s \in assignment_submissions :
        ~(s.assignment_id = assignment_id /\ s.student_id = student_id)

\* UniqueConstraint("quiz_id", "student_id")
uq_one_file_per_student(quiz_id, student_id) ==
    \A s \in quiz_file_submissions :
        ~(s.quiz_id = quiz_id /\ s.student_id = student_id)

-----------------------------------------------------------------------------
(* Repository reads *)

\* AssignmentRepository.get_assignment_by_id: the active assignment, if any.
get_assignment_by_id(assignment_id) ==
    { a \in assignments : a.assignment_id = assignment_id /\ a.is_active }

\* AssignmentRepository.get_submission: the student's submission, if any.
get_submission(assignment_id, student_id) ==
    { s \in assignment_submissions :
        s.assignment_id = assignment_id /\ s.student_id = student_id }

\* The query without its is_active filter.
get_quiz_by_id_unfiltered(quiz_id) ==
    { q \in quizzes : q.quiz_id = quiz_id }

\* QuizRepository.get_quiz_by_id: the active quiz, if any.
get_quiz_by_id(quiz_id) ==
    { q \in quizzes : q.quiz_id = quiz_id /\ q.is_active }

-----------------------------------------------------------------------------
(* AssignmentService.submit_assignment *)

CallSubmitAssignment(r, assignment_id, student_id, file_id) ==
    /\ req[r].pc = "idle"
    /\ req' = [req EXCEPT ![r] =
                 NewReq("submit_assignment", "load", student_id, "Student",
                        assignment_id, file_id, None)]
    /\ UNCHANGED <<clock, tables>>

\* get_assignment_by_id and the deadline check against datetime.now.
SubmitAssignmentLoad(r) ==
    /\ At(r, "submit_assignment", "load")
    /\ LET assignment == get_assignment_by_id(req[r].target)
       IN  IF assignment = None
             THEN Finish(r, "NotFound")
           ELSE IF Get(assignment).deadline < clock
             THEN Finish(r, "BadRequest")
           ELSE req' = [req EXCEPT ![r].pc = "existing", ![r].now = clock,
                                   ![r].loaded = assignment]
    /\ UNCHANGED <<clock, tables>>

\* get_submission ("already submitted") and the ownership of the file.
SubmitAssignmentExisting(r) ==
    /\ At(r, "submit_assignment", "existing")
    /\ IF get_submission(req[r].target, req[r].user_id) # None
         THEN Finish(r, "Conflict")
       ELSE IF InvalidFile(req[r].file_id, req[r].user_id)
         THEN Finish(r, "Forbidden")
       ELSE Goto(r, "insert")
    /\ UNCHANGED <<clock, tables>>

\* The row AssignmentRepository.submit_assignment adds, with the service's
\* `is_late = submitted_at > assignment.deadline`.
NewAssignmentSubmission(r, submitted_at) ==
    [ submission_id |-> r, assignment_id |-> req[r].target,
      student_id |-> req[r].user_id, submitted_file_id |-> req[r].file_id,
      submitted_at |-> submitted_at,
      is_late |-> (submitted_at > Get(req[r].loaded).deadline) ]

\* The INSERT, the late flag and the commit.
SubmitAssignmentInsert(r) ==
    /\ At(r, "submit_assignment", "insert")
    /\ IF uq_one_submission_per_student(req[r].target, req[r].user_id)
         THEN /\ \E submitted_at \in ServerNow(r) :
                    assignment_submissions' = assignment_submissions \cup
                        {NewAssignmentSubmission(r, submitted_at)}
              /\ Finish(r, "ok")
         ELSE /\ UNCHANGED assignment_submissions
              /\ Finish(r, "IntegrityError")
    /\ UNCHANGED <<clock, assignments, quizzes, questions, question_options,
                   quiz_file_submissions, quiz_attempts, quiz_answers,
                   assignment_grades, quiz_grades>>

-----------------------------------------------------------------------------
(* QuizService.submit_file_quiz *)

CallSubmitFileQuiz(r, quiz_id, student_id, file_id) ==
    /\ req[r].pc = "idle"
    /\ req' = [req EXCEPT ![r] =
                 NewReq("submit_file_quiz", "load", student_id, "Student",
                        quiz_id, file_id, None)]
    /\ UNCHANGED <<clock, tables>>

\* get_quiz_by_id, the quiz type, the deadline and the ownership of the file.
SubmitFileQuizLoad(r) ==
    /\ At(r, "submit_file_quiz", "load")
    /\ LET quiz == get_quiz_by_id(req[r].target)
       IN  IF quiz = None \/ Get(quiz).quiz_type # "FileUpload"
             THEN Finish(r, "BadRequest")
           ELSE IF Get(quiz).deadline < clock
             THEN Finish(r, "BadRequest")
           ELSE IF InvalidFile(req[r].file_id, req[r].user_id)
             THEN Finish(r, "Forbidden")
           ELSE req' = [req EXCEPT ![r].pc = "existing", ![r].now = clock,
                                   ![r].loaded = quiz]
    /\ UNCHANGED <<clock, tables>>

\* The query for an existing submission without its student_id filter.
SubmitFileQuizExisting_any_student(r) ==
    /\ At(r, "submit_file_quiz", "existing")
    /\ IF \E s \in quiz_file_submissions : s.quiz_id = req[r].target
         THEN Finish(r, "Conflict")
         ELSE Goto(r, "insert")
    /\ UNCHANGED <<clock, tables>>

\* QuizRepository.submit_file_quiz: the query for an existing submission.
SubmitFileQuizExisting(r) ==
    /\ At(r, "submit_file_quiz", "existing")
    /\ IF \E s \in quiz_file_submissions :
              s.quiz_id = req[r].target /\ s.student_id = req[r].user_id
         THEN Finish(r, "Conflict")
         ELSE Goto(r, "insert")
    /\ UNCHANGED <<clock, tables>>

\* The row QuizRepository.submit_file_quiz adds, with the service's
\* `is_late = submitted_at > quiz.deadline`.
NewQuizFileSubmission(r, submitted_at) ==
    [ submission_id |-> r, quiz_id |-> req[r].target,
      student_id |-> req[r].user_id, submitted_file_id |-> req[r].file_id,
      submitted_at |-> submitted_at,
      is_late |-> (submitted_at > Get(req[r].loaded).deadline) ]

\* The INSERT, the late flag and the commit.
SubmitFileQuizInsert(r) ==
    /\ At(r, "submit_file_quiz", "insert")
    /\ IF uq_one_file_per_student(req[r].target, req[r].user_id)
         THEN /\ \E submitted_at \in ServerNow(r) :
                    quiz_file_submissions' = quiz_file_submissions \cup
                        {NewQuizFileSubmission(r, submitted_at)}
              /\ Finish(r, "ok")
         ELSE /\ UNCHANGED quiz_file_submissions
              /\ Finish(r, "IntegrityError")
    /\ UNCHANGED <<clock, assignments, quizzes, questions, question_options,
                   assignment_submissions, quiz_attempts, quiz_answers,
                   assignment_grades, quiz_grades>>

-----------------------------------------------------------------------------
(* The file-submission workflow: one assignment and one FileUpload quiz,   *)
(* both created by t1 with the deadline at instant 1.                      *)

TheAssignment ==
    [ assignment_id |-> 100, created_by_id |-> "t1",
      created_by_role |-> "Professor", deadline |-> 1, is_active |-> TRUE ]

TheFileQuiz ==
    [ quiz_id |-> 100, created_by_id |-> "t1", created_by_role |-> "Professor",
      quiz_type |-> "FileUpload", deadline |-> 1, max_attempts |-> Some(1),
      is_published |-> TRUE, is_active |-> TRUE ]

InitEmpty ==
    /\ clock = 0
    /\ assignments = {}
    /\ quizzes = {}
    /\ questions = {}
    /\ question_options = {}
    /\ assignment_submissions = {}
    /\ quiz_file_submissions = {}
    /\ quiz_attempts = {}
    /\ quiz_answers = {}
    /\ assignment_grades = {}
    /\ quiz_grades = {}
    /\ req = [r \in Req |-> Idle]

InitSubmit ==
    /\ clock = 0
    /\ assignments = {TheAssignment}
    /\ quizzes = {TheFileQuiz}
    /\ questions = {}
    /\ question_options = {}
    /\ assignment_submissions = {}
    /\ quiz_file_submissions = {}
    /\ quiz_attempts = {}
    /\ quiz_answers = {}
    /\ assignment_grades = {}
    /\ quiz_grades = {}
    /\ req = [r \in Req |-> Idle]

SubmitFiles == {"f1", "f2"}

NextSubmit ==
    \/ Tick
    \/ \E r \in Req, student_id \in Students, file_id \in SubmitFiles :
          CallSubmitAssignment(r, 100, student_id, file_id)
    \/ \E r \in Req : SubmitAssignmentLoad(r)
    \/ \E r \in Req : SubmitAssignmentExisting(r)
    \/ \E r \in Req : SubmitAssignmentInsert(r)
    \/ \E r \in Req, student_id \in Students, file_id \in SubmitFiles :
          CallSubmitFileQuiz(r, 100, student_id, file_id)
    \/ \E r \in Req : SubmitFileQuizLoad(r)
    \/ \E r \in Req : SubmitFileQuizExisting(r)
    \/ \E r \in Req : SubmitFileQuizInsert(r)

SpecSubmit == InitSubmit /\ [][NextSubmit]_vars

-----------------------------------------------------------------------------
(* Claims about the file-submission workflow (SpecSubmit) *)

\* The requests of one method for one (assessment, student) pair that got
\* past every check but the uniqueness of the submission.
SubmitCalls(op, target, student_id) ==
    { r \in Req : /\ req[r].op = op /\ Done(r)
                  /\ req[r].target = target /\ req[r].user_id = student_id
                  /\ req[r].result \in {"ok", "Conflict", "IntegrityError"} }

\* C1: for every (assessment, student) pair, of the submit_assignment (or
\* submit_file_quiz) calls issued for it, sequentially or interleaved between
\* the existence check and the commit, exactly one succeeds and every other
\* one fails with Conflict; no state holds two Submissions of one pair.
C1_OneSuccessOthersConflict ==
    /\ \A s1, s2 \in assignment_submissions :
          s1.assignment_id = s2.assignment_id /\ s1.student_id = s2.student_id
              => s1 = s2
    /\ \A s1, s2 \in quiz_file_submissions :
          s1.quiz_id = s2.quiz_id /\ s1.student_id = s2.student_id => s1 = s2
    /\ \A op \in {"submit_assignment", "submit_file_quiz"},
          student_id \in Students :
          LET calls == SubmitCalls(op, 100, student_id)
          IN  Cardinality(calls) >= 2 =>
                /\ Cardinality({r \in calls : req[r].result = "ok"}) = 1
                /\ \A r \in calls : req[r].result \in {"ok", "Conflict"}

-----------------------------------------------------------------------------
(* QuizService.start_quiz_attempt *)

\* QuizRepository.get_student_attempts_for_quiz
get_student_attempts_for_quiz(quiz_id, student_id) ==
    { a \in quiz_attempts : a.quiz_id = quiz_id /\ a.student_id = student_id }

\* func.max(QuizAttempt.attempt_number) of the pair: None when it has no row.
MaxAttemptNumber(quiz_id, student_id) ==
    LET numbers == { a.attempt_number :
                       a \in get_student_attempts_for_quiz(quiz_id, student_id) }
    IN  IF numbers = {} THEN None
        ELSE Some(CHOOSE n \in numbers : \A k \in numbers : k <= n)

\* `(last_attempt or 0) + 1`
NextAttemptNumber(last_attempt) ==
    IF Truthy(last_attempt) THEN Get(last_attempt) + 1 ELSE 1

\* The table without its unique constraint.
uq_student_attempt_dropped(quiz_id, student_id, attempt_number) == TRUE

\* UniqueConstraint("quiz_id", "student_id", "attempt_number")
uq_student_attempt(quiz_id, student_id, attempt_number) ==
    \A a \in quiz_attempts :
        ~(/\ a.quiz_id = quiz_id /\ a.student_id = student_id
          /\ a.attempt_number = attempt_number)

CallStartQuizAttempt(r, quiz_id, student_id) ==
    /\ req[r].pc = "idle"
    /\ req' = [req EXCEPT ![r] =
                 NewReq("start_quiz_attempt", "load", student_id, "Student",
                        quiz_id, "", None)]
    /\ UNCHANGED <<clock, tables>>

\* get_quiz_by_id, is_published and the deadline.
StartQuizAttemptLoad(r) ==
    /\ At(r, "start_quiz_attempt", "load")
    /\ LET quiz == get_quiz_by_id(req[r].target)
       IN  IF quiz = None \/ ~Get(quiz).is_published
             THEN Finish(r, "NotFound")
           ELSE IF Get(quiz).deadline < clock
             THEN Finish(r, "BadRequest")
           ELSE req' = [req EXCEPT ![r].pc = "count", ![r].now = clock,
                                   ![r].loaded = quiz]
    /\ UNCHANGED <<clock, tables>>

\* `quiz.max_attempts and len(attempts) >= quiz.max_attempts`
MaxAttemptsReached(quiz, attempts) ==
    /\ Truthy(quiz.max_attempts)
    /\ Cardinality(attempts) >= Get(quiz.max_attempts)

\* get_student_attempts_for_quiz and the max_attempts check.
StartQuizAttemptCount(r) ==
    /\ At(r, "start_quiz_attempt", "count")
    /\ IF MaxAttemptsReached(Get(req[r].loaded),
              get_student_attempts_for_quiz(req[r].target, req[r].user_id))
         THEN Finish(r, "Conflict")
         ELSE Goto(r, "last")
    /\ UNCHANGED <<clock, tables>>

\* QuizRepository.start_attempt: the query for the last attempt number.
StartAttemptLast(r) ==
    /\ At(r, "start_quiz_attempt", "last")
    /\ req' = [req EXCEPT ![r].pc = "insert",
                 ![r].seen = MaxAttemptNumber(req[r].target, req[r].user_id)]
    /\ UNCHANGED <<clock, tables>>

\* The row QuizRepository.start_attempt adds (started_at, which nothing
\* reads, is left out).
NewQuizAttempt(r) ==
    [ attempt_id |-> r, quiz_id |-> req[r].target,
      student_id |-> req[r].user_id,
      attempt_number |-> NextAttemptNumber(req[r].seen),
      submitted_at |-> None, score |-> None,
      is_completed |-> FALSE ]

\* QuizRepository.start_attempt: the INSERT, and the service's commit.
StartAttemptInsert(r) ==
    /\ At(r, "start_quiz_attempt", "insert")
    /\ IF uq_student_attempt(req[r].target, req[r].user_id,
                             NextAttemptNumber(req[r].seen))
         THEN /\ quiz_attempts' = quiz_attempts \cup {NewQuizAttempt(r)}
              /\ Finish(r, "ok")
         ELSE /\ UNCHANGED quiz_attempts
              /\ Finish(r, "IntegrityError")
    /\ UNCHANGED <<clock, assignments, quizzes, questions, question_options,
                   assignment_submissions, quiz_file_submissions,
                   quiz_answers, assignment_grades, quiz_grades>>

-----------------------------------------------------------------------------
(* Starting attempts: three published Digital quizzes of t1 with the       *)
(* deadline at instant 1; quiz 101 allows one attempt, quiz 102 two, and   *)
(* quiz 103 has max_attempts unset.                                        *)

DigitalQuiz(quiz_id, max_attempts) ==
    [ quiz_id |-> quiz_id, created_by_id |-> "t1",
      created_by_role |-> "Professor", quiz_type |-> "Digital",
      deadline |-> 1, max_attempts |-> max_attempts,
      is_published |-> TRUE, is_active |-> TRUE ]

AttemptQuizIds == {101, 102, 103}

InitAttempt ==
    /\ clock = 0
    /\ assignments = {}
    /\ quizzes = { DigitalQuiz(101, Some(1)), DigitalQuiz(102, Some(2)),
                   DigitalQuiz(103, None) }
    /\ questions = {}
    /\ question_options = {}
    /\ assignment_submissions = {}
    /\ quiz_file_submissions = {}
    /\ quiz_attempts = {}
    /\ quiz_answers = {}
    /\ assignment_grades = {}
    /\ quiz_grades = {}
    /\ req = [r \in Req |-> Idle]

NextAttempt ==
    \/ Tick
    \/ \E r \in Req, quiz_id \in AttemptQuizIds, student_id \in Students :
          CallStartQuizAttempt(r, quiz_id, student_id)
    \/ \E r \in Req : StartQuizAttemptLoad(r)
    \/ \E r \in Req : StartQuizAttemptCount(r)
    \/ \E r \in Req : StartAttemptLast(r)
    \/ \E r \in Req : StartAttemptInsert(r)

SpecAttempt == InitAttempt /\ [][NextAttempt]_vars

-----------------------------------------------------------------------------
(* Claims about starting attempts (SpecAttempt) *)

\* C2: for every quiz with max_attempts = N and every student, the number of
\* Attempt rows of the pair never exceeds N under any interleaving of
\* start_quiz_attempt calls, and at most N calls succeed.
C2_AtMostMaxAttempts ==
    \A q \in quizzes, student_id \in Students :
        Truthy(q.max_attempts) =>
          /\ Cardinality(get_student_attempts_for_quiz(q.quiz_id, student_id))
                <= Get(q.max_attempts)
          /\ Cardinality({ r \in Req :
                 /\ req[r].op = "start_quiz_attempt" /\ req[r].result = "ok"
                 /\ req[r].target = q.quiz_id /\ req[r].user_id = student_id })
                <= Get(q.max_attempts)

\* In every state the attempt numbers of a pair are 1..k, k its attempts.
AttemptNumbersContiguous ==
    \A quiz_id \in AttemptQuizIds, student_id \in Students :
        LET attempts == get_student_attempts_for_quiz(quiz_id, student_id)
        IN  { a.attempt_number : a \in attempts } = 1..Cardinality(attempts)

\* A step keeps every attempt row's number, and a row it adds has a number
\* above every number the pair had.
AttemptNumbersIncrease ==
    /\ \A a \in quiz_attempts : \E b \in quiz_attempts' :
          /\ b.attempt_id = a.attempt_id
          /\ b.attempt_number = a.attempt_number
    /\ \A b \in quiz_attempts' :
          (\A a \in quiz_attempts : a.attempt_id # b.attempt_id) =>
              \A a \in quiz_attempts :
                  a.quiz_id = b.quiz_id /\ a.student_id = b.student_id
                      => a.attempt_number < b.attempt_number

\* C3: in every reachable state the attempt_number values of a (quiz,
\* student) pair are exactly 1..k with no gap and no repeat, and each new
\* attempt gets a number strictly greater than every earlier one, also when
\* start_quiz_attempt calls of the pair run concurrently.
C3_AttemptNumbers ==
    []AttemptNumbersContiguous /\ [][AttemptNumbersIncrease]_vars

\* Two calls of one pair both read the same last number; one inserted its
\* row and the other was refused by the unique constraint.
C3_Witness ==
    \E r \in Req : /\ req[r].op = "start_quiz_attempt"
                      /\ req[r].result = "IntegrityError"
                      /\ \E a \in quiz_attempts :
                            /\ a.quiz_id = req[r].target
                            /\ a.student_id = req[r].user_id
                            /\ a.attempt_number = NextAttemptNumber(req[r].seen)

-----------------------------------------------------------------------------
(* QuizService.submit_digital_quiz and QuizRepository.submit_attempt *)

\* Longest answer list a request carries.
MaxAnswers == 2

get_question_by_id(question_id) ==
    { q \in questions : q.question_id = question_id }

\* `self.db.query(QuestionOption).filter(option_id == selected_option_id)`
get_option_by_id(selected_option_id) ==
    { o \in question_options : Some(o.option_id) = selected_option_id }

\* One pass of the loop of submit_attempt over an answer whose question
\* exists: the marks awarded and the is_correct flag of the QuizAnswer row.
GradeAnswer(ans) ==
    LET question == Get(get_question_by_id(ans.question_id))
        selected == get_option_by_id(ans.selected_option_id)
    IN  IF /\ question.question_type \in {"MCQ", "TrueFalse"}
           /\ selected # None
           /\ Get(selected).is_correct
          THEN [awarded |-> question.marks, is_correct |-> Some(TRUE)]
          ELSE [awarded |-> 0, is_correct |-> None]

\* What one answer adds to total_score: nothing when its question is not
\* found (`continue`) or is a Paragraph question.
ScoreOfAnswer(ans) ==
    LET question == get_question_by_id(ans.question_id)
    IN  IF question = None THEN 0
        ELSE IF Get(question).question_type \in {"MCQ", "TrueFalse"}
          THEN GradeAnswer(ans).awarded
        ELSE 0

RECURSIVE TotalScore(_)
TotalScore(answers) ==
    IF answers = <<>> THEN 0
    ELSE ScoreOfAnswer(Head(answers)) + TotalScore(Tail(answers))

\* The indexes of the answers that get a QuizAnswer row.
AnswersKept(answers) ==
    { i \in DOMAIN answers : get_question_by_id(answers[i].question_id) # None }

\* The QuizAnswer row of one answer.
NewQuizAnswer(attempt_id, ans) ==
    [ attempt_id |-> attempt_id, question_id |-> ans.question_id,
      selected_option_id |-> ans.selected_option_id,
      awarded_marks |-> GradeAnswer(ans).awarded,
      is_correct |-> GradeAnswer(ans).is_correct ]

\* UniqueConstraint("attempt_id", "question_id") over the rows of the table
\* and the rows the flush adds.
uq_one_answer_per_question(attempt_id, answers) ==
    /\ \A i, j \in AnswersKept(answers) :
          answers[i].question_id = answers[j].question_id => i = j
    /\ \A i \in AnswersKept(answers) : \A row \in quiz_answers :
          ~(/\ row.attempt_id = attempt_id
            /\ row.question_id = answers[i].question_id)

\* ForeignKey("question_options.option_id") of quiz_answers.selected_option_id
fk_selected_option(answers) ==
    \A i \in AnswersKept(answers) :
        \/ answers[i].selected_option_id = None
        \/ get_option_by_id(answers[i].selected_option_id) # None

CallSubmitDigitalQuiz(r, attempt_id, student_id, answers) ==
    /\ req[r].pc = "idle"
    /\ req' = [req EXCEPT ![r] =
                 NewReq("submit_digital_quiz", "load", student_id, "Student",
                        attempt_id, "", answers)]
    /\ UNCHANGED <<clock, tables>>

\* The service without its `attempt.student_id != student_id` check.
SubmitDigitalQuizLoad_any_student(r) ==
    /\ At(r, "submit_digital_quiz", "load")
    /\ LET attempt == { a \in quiz_attempts : a.attempt_id = req[r].target }
       IN  IF attempt = None
             THEN Finish(r, "NotFound")
           ELSE IF Get(attempt).is_completed
             THEN Finish(r, "Conflict")
           ELSE req' = [req EXCEPT ![r].pc = "submit", ![r].loaded = attempt]
    /\ UNCHANGED <<clock, tables>>

\* The query for the attempt and the three checks of the service.
SubmitDigitalQuizLoad(r) ==
    /\ At(r, "submit_digital_quiz", "load")
    /\ LET attempt == { a \in quiz_attempts : a.attempt_id = req[r].target }
       IN  IF attempt = None
             THEN Finish(r, "NotFound")
           ELSE IF Get(attempt).student_id # req[r].user_id
             THEN Finish(r, "Forbidden")
           ELSE IF Get(attempt).is_completed
             THEN Finish(r, "Conflict")
           ELSE req' = [req EXCEPT ![r].pc = "submit", ![r].loaded = attempt]
    /\ UNCHANGED <<clock, tables>>

\* QuizRepository.submit_attempt with submitted_at = datetime.now, and the
\* service's commit: the attempt row is updated and the answers inserted.
SubmitAttempt(r) ==
    /\ At(r, "submit_digital_quiz", "submit")
    /\ LET attempt_id == req[r].target
           answers == req[r].data
           attempt == { a \in quiz_attempts : a.attempt_id = attempt_id }
       IN  IF attempt = None
             THEN /\ UNCHANGED <<quiz_attempts, quiz_answers>>
                  /\ Finish(r, "NotFound")
           ELSE IF ~ (/\ uq_one_answer_per_question(attempt_id, answers)
                      /\ fk_selected_option(answers))
             THEN /\ UNCHANGED <<quiz_attempts, quiz_answers>>
                  /\ Finish(r, "IntegrityError")
           ELSE /\ quiz_attempts' = (quiz_attempts \ attempt) \cup
                     { [Get(attempt) EXCEPT !.submitted_at = Some(clock),
                                            !.is_completed = TRUE,
                                            !.score = Some(TotalScore(answers))] }
                /\ quiz_answers' = quiz_answers \cup
                     { NewQuizAnswer(attempt_id, answers[i]) :
                         i \in AnswersKept(answers) }
                /\ Finish(r, "ok")
    /\ UNCHANGED <<clock, assignments, quizzes, questions, question_options,
                   assignment_submissions, quiz_file_submissions,
                   assignment_grades, quiz_grades>>

-----------------------------------------------------------------------------
(* Submitting a digital quiz: quiz 101 holds an MCQ question (2 marks,     *)
(* option 11 correct, 12 wrong) and a Paragraph question (3 marks); quiz   *)
(* 104 holds a TrueFalse question (1 mark, option 32 correct).  Student s1 *)
(* has started attempt 100 of quiz 101.                                    *)

NewQuestion(question_id, quiz_id, question_type, marks, order_number) ==
    [ question_id |-> question_id, quiz_id |-> quiz_id,
      question_type |-> question_type, marks |-> marks,
      order_number |-> order_number ]

NewOption(option_id, question_id, is_correct) ==
    [ option_id |-> option_id, question_id |-> question_id,
      is_correct |-> is_correct ]

TheQuestions ==
    { NewQuestion(1, 101, "MCQ", 2, 1), NewQuestion(2, 101, "Paragraph", 3, 2),
      NewQuestion(3, 104, "TrueFalse", 1, 1) }

TheOptions ==
    { NewOption(11, 1, TRUE), NewOption(12, 1, FALSE),
      NewOption(31, 3, FALSE), NewOption(32, 3, TRUE) }

TheAttempt ==
    [ attempt_id |-> 100, quiz_id |-> 101, student_id |-> "s1",
      attempt_number |-> 1, submitted_at |-> None, score |-> None,
      is_completed |-> FALSE ]

StudentAnswer(question_id, selected_option_id) ==
    [ question_id |-> question_id, selected_option_id |-> selected_option_id ]

\* The StudentAnswer values a request may carry: the right and the wrong
\* option of question 1, an option of question 3 given for question 1, the
\* Paragraph question 2, and question 3 of the other quiz.
StudentAnswers ==
    { StudentAnswer(1, Some(11)), StudentAnswer(1, Some(12)),
      StudentAnswer(1, Some(32)), StudentAnswer(2, None),
      StudentAnswer(3, Some(32)) }

RECURSIVE SeqsUpTo(_, _)
SeqsUpTo(S, n) ==
    IF n = 0 THEN {<<>>}
    ELSE LET shorter == SeqsUpTo(S, n - 1)
         IN  shorter \cup { Append(q, x) : q \in shorter, x \in S }

\* QuizAttemptCreate.answers
AnswerLists == SeqsUpTo(StudentAnswers, MaxAnswers)

InitDigital ==
    /\ clock = 0
    /\ assignments = {}
    /\ quizzes = { DigitalQuiz(101, Some(1)), DigitalQuiz(104, Some(1)) }
    /\ questions = TheQuestions
    /\ question_options = TheOptions
    /\ assignment_submissions = {}
    /\ quiz_file_submissions = {}
    /\ quiz_attempts = {TheAttempt}
    /\ quiz_answers = {}
    /\ assignment_grades = {}
    /\ quiz_grades = {}
    /\ req = [r \in Req |-> Idle]

NextDigital ==
    \/ Tick
    \/ \E r \in Req, student_id \in Students, answers \in AnswerLists :
          CallSubmitDigitalQuiz(r, 100, student_id, answers)
    \/ \E r \in Req : SubmitDigitalQuizLoad(r)
    \/ \E r \in Req : SubmitAttempt(r)

SpecDigital == InitDigital /\ [][NextDigital]_vars

RECURSIVE SumMarks(_)
SumMarks(qs) ==
    IF qs = {} THEN 0
    ELSE LET q == CHOOSE x \in qs : TRUE
         IN  q.marks + SumMarks(qs \ {q})

\* The questions of the quiz that the answer list answers with their own
\* correct option, Paragraph questions left out.
CorrectlyAnswered(quiz_id, answers) ==
    { q \in questions :
        /\ q.quiz_id = quiz_id
        /\ q.question_type # "Paragraph"
        /\ \E i \in DOMAIN answers : \E o \in question_options :
              /\ answers[i].question_id = q.question_id
              /\ answers[i].selected_option_id = Some(o.option_id)
              /\ o.question_id = q.question_id
              /\ o.is_correct }

\* C4: the score that a successful submit_digital_quiz stores on the
\* attempt is the sum of the marks of exactly the questions of the attempt's
\* quiz whose submitted option is that question's correct option; Paragraph
\* and unanswered questions add nothing.
C4_ScoreIsSumOfCorrect ==
    [][ \A r \in Req :
          (/\ At(r, "submit_digital_quiz", "submit")
           /\ req'[r].result = "ok")
          => \A a \in quiz_attempts' :
                a.attempt_id = req[r].target
                => a.score = Some(SumMarks(CorrectlyAnswered(a.quiz_id, req[r].data)))
      ]_vars

AnswersOf(attempt_id, rows) == { row \in rows : row.attempt_id = attempt_id }

\* C10: an attempt is completed at most once: at most one submit_digital_quiz
\* succeeds for it, also when two calls interleave between the is_completed
\* check and the commit, and once it is completed its score, submitted_at and
\* answers never change.
C10_CompletedAtMostOnce ==
    /\ [](\A a \in quiz_attempts :
            Cardinality({ r \in Req : /\ req[r].op = "submit_digital_quiz"
                                      /\ req[r].result = "ok"
                                      /\ req[r].target = a.attempt_id }) <= 1)
    /\ [][ \A a \in quiz_attempts :
             a.is_completed
             => /\ a \in quiz_attempts'
                /\ AnswersOf(a.attempt_id, quiz_answers')
                     = AnswersOf(a.attempt_id, quiz_answers) ]_vars

-----------------------------------------------------------------------------
(* AssignmentService.grade_assignment and QuizService.grade_quiz *)

\* AssignmentRepository.get_submission_by_id
get_submission_by_id(submission_id) ==
    { sub \in assignment_submissions : sub.submission_id = submission_id }

\* `submission.grade`: the AssignmentGrade rows of the submission.
GradeOfSubmission(submission_id) ==
    { g \in assignment_grades : g.submission_id = submission_id }

\* `attempt.grade`: the QuizGrade rows of the attempt.
GradeOfAttempt(attempt_id) ==
    { g \in quiz_grades : g.attempt_id = Some(attempt_id) }

\* `submission.grade` of a quiz file submission.
GradeOfFileSubmission(submission_id) ==
    { g \in quiz_grades : g.file_submission_id = Some(submission_id) }

AlreadyGraded_never(submission_id) == FALSE
\* `if submission.grade:`
AlreadyGraded(submission_id) == GradeOfSubmission(submission_id) # None

\* submission_id: unique=True
uq_grade_submission_id(submission_id) ==
    \A g \in assignment_grades : g.submission_id # submission_id

\* AssignmentGradeCreate / QuizGradeCreate
GradeCreate(final_score, feedback_file_id) ==
    [ final_score |-> final_score, feedback_file_id |-> feedback_file_id ]

CallGradeAssignment(r, submission_id, grade_data, teacher) ==
    /\ req[r].pc = "idle"
    /\ req' = [req EXCEPT ![r] =
                 NewReq("grade_assignment", "load", teacher, RoleOf(teacher),
                        submission_id, "", grade_data)]
    /\ UNCHANGED <<clock, tables>>

\* The checks of grade_assignment: the role, the submission, its grade and
\* the feedback file.
GradeAssignmentLoad(r) ==
    /\ At(r, "grade_assignment", "load")
    /\ IF req[r].role \notin TeacherRoles
         THEN Finish(r, "Forbidden")
       ELSE IF get_submission_by_id(req[r].target) = None
         THEN Finish(r, "NotFound")
       ELSE IF AlreadyGraded(req[r].target)
         THEN Finish(r, "Conflict")
       ELSE IF /\ req[r].data.feedback_file_id # None
               /\ InvalidFile(Get(req[r].data.feedback_file_id), req[r].user_id)
         THEN Finish(r, "Forbidden")
       ELSE Goto(r, "insert")
    /\ UNCHANGED <<clock, tables>>

\* The AssignmentGrade row of create_grade; graded_at is left out.
NewAssignmentGrade(r) ==
    [ grade_id |-> r, submission_id |-> req[r].target,
      graded_by_id |-> req[r].user_id, graded_by_role |-> req[r].role,
      final_score |-> req[r].data.final_score,
      feedback_file_id |-> req[r].data.feedback_file_id ]

\* AssignmentRepository.create_grade and the commit.
GradeAssignmentInsert(r) ==
    /\ At(r, "grade_assignment", "insert")
    /\ IF uq_grade_submission_id(req[r].target)
         THEN /\ assignment_grades' = assignment_grades \cup {NewAssignmentGrade(r)}
              /\ Finish(r, "ok")
         ELSE /\ UNCHANGED assignment_grades
              /\ Finish(r, "IntegrityError")
    /\ UNCHANGED <<clock, assignments, quizzes, questions, question_options,
                   assignment_submissions, quiz_file_submissions,
                   quiz_attempts, quiz_answers, quiz_grades>>

\* grade_digital_quiz / grade_file_quiz
CallGradeQuiz(r, target_id, target_type, grade_data, teacher) ==
    /\ req[r].pc = "idle"
    /\ req' = [req EXCEPT ![r] =
                 NewReq("grade_quiz", "check", teacher, RoleOf(teacher),
                        target_id, target_type, grade_data)]
    /\ UNCHANGED <<clock, tables>>

\* grade_quiz: the role, the target and its grade are checked, and the
\* method returns its message; it adds no row and commits nothing.
GradeQuiz(r) ==
    /\ At(r, "grade_quiz", "check")
    /\ LET target_id == req[r].target
           target_type == req[r].file_id
           attempt == { a \in quiz_attempts : a.attempt_id = target_id }
           submission == { f \in quiz_file_submissions :
                             f.submission_id = target_id }
       IN  IF req[r].role \notin TeacherRoles
             THEN Finish(r, "Forbidden")
           ELSE IF target_type = "digital"
             THEN IF attempt = None \/ GradeOfAttempt(target_id) # None
                    THEN Finish(r, "BadRequest")
                    ELSE Finish(r, "ok")
           ELSE IF target_type = "file"
             THEN IF submission = None \/ GradeOfFileSubmission(target_id) # None
                    THEN Finish(r, "BadRequest")
                    ELSE Finish(r, "ok")
           ELSE Finish(r, "BadRequest")
    /\ UNCHANGED <<clock, tables>>

-----------------------------------------------------------------------------
(* Grading: student s1 has handed in submission 100 of the assignment, has *)
(* completed attempt 100 of quiz 101 and has handed in file submission 100 *)
(* of the file quiz.  Id 999 names no row.                                 *)

TheSubmission ==
    [ submission_id |-> 100, assignment_id |-> 100, student_id |-> "s1",
      submitted_file_id |-> "f1", submitted_at |-> 0, is_late |-> FALSE ]

TheFileSubmission ==
    [ submission_id |-> 100, quiz_id |-> 100, student_id |-> "s1",
      submitted_file_id |-> "f1", submitted_at |-> 0, is_late |-> FALSE ]

TheCompletedAttempt ==
    [ TheAttempt EXCEPT !.submitted_at = Some(0), !.score = Some(2),
                        !.is_completed = TRUE ]

GradeTargets == {100, 999}

\* The grade payloads: two scores, no feedback file or the file of t1.
GradePayloads ==
    { GradeCreate(final_score, feedback_file_id) :
        final_score \in {1, 2}, feedback_file_id \in {None, Some("f3")} }

InitGrade ==
    /\ clock = 0
    /\ assignments = {TheAssignment}
    /\ quizzes = { TheFileQuiz, DigitalQuiz(101, Some(1)) }
    /\ questions = {}
    /\ question_options = {}
    /\ assignment_submissions = {TheSubmission}
    /\ quiz_file_submissions = {TheFileSubmission}
    /\ quiz_attempts = {TheCompletedAttempt}
    /\ quiz_answers = {}
    /\ assignment_grades = {}
    /\ quiz_grades = {}
    /\ req = [r \in Req |-> Idle]

NextGrade ==
    \/ \E r \in Req, submission_id \in GradeTargets,
          grade_data \in GradePayloads, teacher \in Teachers :
          CallGradeAssignment(r, submission_id, grade_data, teacher)
    \/ \E r \in Req : GradeAssignmentLoad(r)
    \/ \E r \in Req : GradeAssignmentInsert(r)
    \/ \E r \in Req, target_id \in GradeTargets,
          target_type \in {"digital", "file"},
          grade_data \in GradePayloads, teacher \in Teachers :
          CallGradeQuiz(r, target_id, target_type, grade_data, teacher)
    \/ \E r \in Req : GradeQuiz(r)

SpecGrade == InitGrade /\ [][NextGrade]_vars

-----------------------------------------------------------------------------
(* Claims about grading (SpecGrade) *)

\* A grade_assignment call takes its checking step while the submission it
\* names has a grade.
ChecksGradedSubmission(r) ==
    /\ At(r, "grade_assignment", "load")
    /\ req'[r] # req[r]
    /\ GradeOfSubmission(req[r].target) # None

\* C5: an assignment submission has at most one grade; once grade_assignment
\* has succeeded for it, every later grade_assignment on it fails with
\* Conflict, and the grade (grader, final_score, feedback) stays as it is.
C5_OneGradeThenConflict ==
    /\ [](\A sub \in assignment_submissions :
            Cardinality(GradeOfSubmission(sub.submission_id)) <= 1)
    /\ [][ \A r \in Req :
             ChecksGradedSubmission(r) => req'[r].result = "Conflict" ]_vars
    /\ [][ \A g \in assignment_grades : g \in assignment_grades' ]_vars

\* A second grade_assignment with another payload has been refused with
\* Conflict and the grade is the one the first call wrote.
C5_Witness ==
    \E r1, r2 \in Req :
        /\ req[r1].op = "grade_assignment" /\ req[r1].result = "ok"
        /\ req[r2].op = "grade_assignment" /\ req[r2].result = "Conflict"
        /\ req[r1].target = req[r2].target
        /\ req[r1].data # req[r2].data
        /\ req[r1].user_id # req[r2].user_id
        /\ GradeOfSubmission(req[r1].target) = {NewAssignmentGrade(r1)}

\* The grading calls of one kind for one source that got past the checks of
\* the role, the source's existence and the feedback file.
GradeCalls(op, target_type, target) ==
    { r \in Req : /\ req[r].op = op /\ Done(r)
                  /\ req[r].file_id = target_type /\ req[r].target = target
                  /\ req[r].result \in {"ok", "Conflict", "IntegrityError",
                                        "BadRequest"} }

\* The Grade rows of a source: an assignment submission, a quiz attempt or a
\* quiz file submission.
GradesOfSource(op, target_type, target) ==
    IF op = "grade_assignment" THEN GradeOfSubmission(target)
    ELSE IF target_type = "digital" THEN GradeOfAttempt(target)
    ELSE GradeOfFileSubmission(target)

GradeSources ==
    { <<"grade_assignment", "">>, <<"grade_quiz", "digital">>,
      <<"grade_quiz", "file">> }

\* C6: grade creation is linearized per source: of two grading calls for one
\* source, also interleaved between the already-graded check and the insert,
\* exactly one Grade row results, one call succeeds and the other fails with
\* Conflict; no state has two Grades for one source.
C6_GradeLinearized ==
    \A src \in GradeSources :
        LET calls == GradeCalls(src[1], src[2], 100)
            grades == GradesOfSource(src[1], src[2], 100)
        IN  /\ Cardinality(grades) <= 1
            /\ Cardinality(calls) >= 2 =>
                  /\ Cardinality(grades) = 1
                  /\ Cardinality({r \in calls : req[r].result = "ok"}) = 1
                  /\ \A r \in calls : req[r].result \in {"ok", "Conflict"}

\* A grade_quiz call takes its step on a source for which an earlier
\* grade_quiz call has returned success.
ChecksGradedQuizSource(r) ==
    /\ At(r, "grade_quiz", "check")
    /\ req'[r] # req[r]
    /\ \E r0 \in Req :
          /\ req[r0].op = "grade_quiz" /\ req[r0].result = "ok"
          /\ req[r0].target = req[r].target
          /\ req[r0].file_id = req[r].file_id

\* C7: a grade_quiz call by a teacher that returns success has created a
\* Grade attached to its source (completed attempt or file submission), and
\* every later grade_quiz on that source is rejected.
C7_QuizGradeCreatedTerminal ==
    /\ [](\A r \in Req :
            req[r].op = "grade_quiz" /\ req[r].result = "ok"
                => GradesOfSource("grade_quiz", req[r].file_id, req[r].target)
                       # None)
    /\ [][ \A r \in Req :
             ChecksGradedQuizSource(r) => req'[r].result # "ok" ]_vars

-----------------------------------------------------------------------------
(* QuizService.create_quiz and AssignmentService.create_assignment *)

\* QuizCreate: the fields of QuizBase that the model keeps, and
\* instructions_file_id.
QuizCreate(quiz_type, deadline, is_published, instructions_file_id) ==
    [ quiz_type |-> quiz_type, deadline |-> deadline, max_attempts |-> Some(1),
      is_published |-> is_published, file_id |-> instructions_file_id ]

\* AssignmentCreate: deadline and reference_file_id.
AssignmentCreate(deadline, reference_file_id) ==
    [ deadline |-> deadline, file_id |-> reference_file_id ]

\* `Quiz(**quiz_data.dict(...), created_by_id=..., created_by_role=...)`
NewQuiz(r) ==
    [ quiz_id |-> r, created_by_id |-> req[r].user_id,
      created_by_role |-> req[r].role, quiz_type |-> req[r].data.quiz_type,
      deadline |-> req[r].data.deadline,
      max_attempts |-> req[r].data.max_attempts,
      is_published |-> req[r].data.is_published, is_active |-> TRUE ]

\* The row of AssignmentRepository.create_assignment.
NewAssignment(r) ==
    [ assignment_id |-> r, created_by_id |-> req[r].user_id,
      created_by_role |-> req[r].role, deadline |-> req[r].data.deadline,
      is_active |-> TRUE ]

\* `if data.<file>_id: file = get_file_by_id(...); if not file or
\* file.uploaded_by != creator_id`
InvalidCreatorFile(r) ==
    /\ req[r].data.file_id # None
    /\ InvalidFile(Get(req[r].data.file_id), req[r].user_id)

CallCreateQuiz(r, quiz_data, teacher) ==
    /\ req[r].pc = "idle"
    /\ req' = [req EXCEPT ![r] =
                 NewReq("create_quiz", "create", teacher, RoleOf(teacher),
                        0, "", quiz_data)]
    /\ UNCHANGED <<clock, tables>>

\* create_quiz: the row is flushed before the instructions file is checked;
\* a refused file leaves the transaction uncommitted, so the row is gone.
CreateQuiz(r) ==
    /\ At(r, "create_quiz", "create")
    /\ IF req[r].role \notin TeacherRoles
         THEN /\ UNCHANGED quizzes
              /\ req' = [req EXCEPT ![r].pc = "done", ![r].now = clock,
                                    ![r].result = "Forbidden"]
       ELSE IF req[r].data.deadline <= clock
         THEN /\ UNCHANGED quizzes
              /\ req' = [req EXCEPT ![r].pc = "done", ![r].now = clock,
                                    ![r].result = "BadRequest"]
       ELSE IF InvalidCreatorFile(r)
         THEN /\ UNCHANGED quizzes
              /\ req' = [req EXCEPT ![r].pc = "done", ![r].now = clock,
                                    ![r].result = "Forbidden"]
       ELSE /\ quizzes' = quizzes \cup {NewQuiz(r)}
            /\ req' = [req EXCEPT ![r].pc = "done", ![r].now = clock,
                                  ![r].result = "ok"]
    /\ UNCHANGED <<clock, assignments, questions, question_options,
                   assignment_submissions, quiz_file_submissions,
                   quiz_attempts, quiz_answers, assignment_grades,
                   quiz_grades>>

CallCreateAssignment(r, assignment_data, teacher) ==
    /\ req[r].pc = "idle"
    /\ req' = [req EXCEPT ![r] =
                 NewReq("create_assignment", "create", teacher,
                        RoleOf(teacher), 0, "", assignment_data)]
    /\ UNCHANGED <<clock, tables>>

CreateAssignment(r) ==
    /\ At(r, "create_assignment", "create")
    /\ IF req[r].role \notin TeacherRoles
         THEN /\ UNCHANGED assignments
              /\ req' = [req EXCEPT ![r].pc = "done", ![r].now = clock,
                                    ![r].result = "Forbidden"]
       ELSE IF req[r].data.deadline <= clock
         THEN /\ UNCHANGED assignments
              /\ req' = [req EXCEPT ![r].pc = "done", ![r].now = clock,
                                    ![r].result = "BadRequest"]
       ELSE IF InvalidCreatorFile(r)
         THEN /\ UNCHANGED assignments
              /\ req' = [req EXCEPT ![r].pc = "done", ![r].now = clock,
                                    ![r].result = "Forbidden"]
       ELSE /\ assignments' = assignments \cup {NewAssignment(r)}
            /\ req' = [req EXCEPT ![r].pc = "done", ![r].now = clock,
                                  ![r].result = "ok"]
    /\ UNCHANGED <<clock, quizzes, questions, question_options,
                   assignment_submissions, quiz_file_submissions,
                   quiz_attempts, quiz_answers, assignment_grades,
                   quiz_grades>>

\* Deadlines of the create payloads.
Deadlines == 0..MaxClock

QuizPayloads ==
    { QuizCreate(quiz_type, deadline, is_published, instructions_file_id) :
        quiz_type \in {"Digital", "FileUpload"}, deadline \in Deadlines,
        is_published \in BOOLEAN,
        instructions_file_id \in {None, Some("f3")} }

AssignmentPayloads ==
    { AssignmentCreate(deadline, reference_file_id) :
        deadline \in Deadlines, reference_file_id \in {None, Some("f3")} }

NextCreate ==
    \/ Tick
    \/ \E r \in Req, quiz_data \in QuizPayloads, teacher \in Teachers :
          CallCreateQuiz(r, quiz_data, teacher)
    \/ \E r \in Req : CreateQuiz(r)
    \/ \E r \in Req, assignment_data \in AssignmentPayloads,
          teacher \in Teachers :
          CallCreateAssignment(r, assignment_data, teacher)
    \/ \E r \in Req : CreateAssignment(r)

SpecCreate == InitEmpty /\ [][NextCreate]_vars

\* C8: a create_quiz or create_assignment call by a Professor or
\* AssociateTeacher fails with BadRequest and persists nothing when
\* deadline <= now, and succeeds when deadline > now, the created quiz being
\* a draft: is_published = FALSE and no questions.
C8_CreateDeadlineDraft ==
    \A r \in Req :
        (/\ req[r].op \in {"create_quiz", "create_assignment"}
         /\ Done(r)
         /\ req[r].role \in TeacherRoles)
        => LET created_quizzes == { q \in quizzes : q.quiz_id = r }
               created_assignments ==
                   { a \in assignments : a.assignment_id = r }
           IN  IF req[r].data.deadline <= req[r].now
                 THEN /\ req[r].result = "BadRequest"
                      /\ created_quizzes = {}
                      /\ created_assignments = {}
                 ELSE /\ req[r].result = "ok"
                      /\ req[r].op = "create_quiz" =>
                            /\ created_quizzes # {}
                            /\ \A q \in created_quizzes :
                                  /\ q.is_published = FALSE
                                  /\ \A qn \in questions : qn.quiz_id # r
                      /\ req[r].op = "create_assignment" =>
                            created_assignments # {}

-----------------------------------------------------------------------------
(* QuizService.update_quiz, publish_quiz and add_question *)

\* `quiz.questions`: the Question rows of the quiz.
QuestionsOf(quiz_id) == { q \in questions : q.quiz_id = quiz_id }

NotOwner_never(quiz, user_id) == FALSE
\* `quiz.created_by_id != user_id`
NotOwner(quiz, user_id) == quiz.created_by_id # user_id

\* The questions table without its unique constraint.
uq_question_order_dropped(quiz_id, order_number) == TRUE

\* UniqueConstraint("quiz_id", "order_number")
uq_question_order(quiz_id, order_number) ==
    \A q \in questions :
        ~(q.quiz_id = quiz_id /\ q.order_number = order_number)

\* QuizUpdate with exclude_unset: None is a field the request leaves unset.
QuizUpdate(is_published, deadline) ==
    [ is_published |-> is_published, deadline |-> deadline ]

\* A QuizUpdate whose JSON names the fields of `nulls` with the value null:
\* exclude_unset keeps them, and setattr stores None.
QuizUpdateNull(nulls) ==
    [ is_published |-> None, deadline |-> None, nulls |-> nulls ]

ExplicitNulls(update_data) ==
    IF "nulls" \in DOMAIN update_data THEN update_data.nulls ELSE {}

\* The UPDATE of a flush: a column is written when the request set the
\* attribute to a value other than the one it loaded.
Written(value, loaded_value, current) ==
    IF value # None /\ Get(value) # loaded_value THEN Get(value) ELSE current

CallUpdateQuiz(r, quiz_id, update_data, teacher) ==
    /\ req[r].pc = "idle"
    /\ req' = [req EXCEPT ![r] =
                 NewReq("update_quiz", "load", teacher, RoleOf(teacher),
                        quiz_id, "", update_data)]
    /\ UNCHANGED <<clock, tables>>

\* update_quiz without its "Cannot unpublish" check.
UpdateQuizLoad_unpublish_allowed(r) ==
    /\ At(r, "update_quiz", "load")
    /\ LET quiz == get_quiz_by_id(req[r].target)
       IN  IF quiz = None
             THEN Finish(r, "NotFound")
           ELSE IF NotOwner(Get(quiz), req[r].user_id)
             THEN Finish(r, "Forbidden")
           ELSE req' = [req EXCEPT ![r].pc = "write", ![r].loaded = quiz]
    /\ UNCHANGED <<clock, tables>>

\* The service's query and its three checks.
UpdateQuizLoad(r) ==
    /\ At(r, "update_quiz", "load")
    /\ LET quiz == get_quiz_by_id(req[r].target)
       IN  IF quiz = None
             THEN Finish(r, "NotFound")
           ELSE IF NotOwner(Get(quiz), req[r].user_id)
             THEN Finish(r, "Forbidden")
           ELSE IF /\ Get(quiz).is_published
                   /\ req[r].data.is_published = Some(FALSE)
             THEN Finish(r, "BadRequest")
           ELSE req' = [req EXCEPT ![r].pc = "write", ![r].loaded = quiz]
    /\ UNCHANGED <<clock, tables>>

\* QuizRepository.update_quiz (query again, setattr, flush) and the commit.
UpdateQuizWrite(r) ==
    /\ At(r, "update_quiz", "write")
    /\ LET quiz == get_quiz_by_id(req[r].target)
           old == Get(req[r].loaded)
       IN  IF quiz = None
             THEN /\ UNCHANGED quizzes
                  /\ Finish(r, "NotFound")
           ELSE IF ExplicitNulls(req[r].data) # {}
             \* is_published and deadline are Mapped[bool] / Mapped[DateTime]:
             \* NOT NULL columns, the flush of None raises IntegrityError.
             THEN /\ UNCHANGED quizzes
                  /\ Finish(r, "IntegrityError")
             ELSE /\ quizzes' = (quizzes \ quiz) \cup
                       { [Get(quiz) EXCEPT
                            !.is_published = Written(req[r].data.is_published,
                                                     old.is_published, @),
                            !.deadline = Written(req[r].data.deadline,
                                                 old.deadline, @)] }
                  /\ Finish(r, "ok")
    /\ UNCHANGED <<clock, assignments, questions, question_options,
                   assignment_submissions, quiz_file_submissions,
                   quiz_attempts, quiz_answers, assignment_grades,
                   quiz_grades>>

CallPublishQuiz(r, quiz_id, teacher) ==
    /\ req[r].pc = "idle"
    /\ req' = [req EXCEPT ![r] =
                 NewReq("publish_quiz", "load", teacher, RoleOf(teacher),
                        quiz_id, "", None)]
    /\ UNCHANGED <<clock, tables>>

\* The service's query, the owner check and `if not quiz.questions`.
PublishQuizLoad(r) ==
    /\ At(r, "publish_quiz", "load")
    /\ LET quiz == get_quiz_by_id(req[r].target)
       IN  IF quiz = None
             THEN Finish(r, "NotFound")
           ELSE IF NotOwner(Get(quiz), req[r].user_id)
             THEN Finish(r, "Forbidden")
           ELSE IF QuestionsOf(req[r].target) = {}
             THEN Finish(r, "BadRequest")
           ELSE req' = [req EXCEPT ![r].pc = "write", ![r].loaded = quiz]
    /\ UNCHANGED <<clock, tables>>

\* QuizRepository.publish_quiz and the commit.
PublishQuizWrite(r) ==
    /\ At(r, "publish_quiz", "write")
    /\ LET quiz == get_quiz_by_id(req[r].target)
           old == Get(req[r].loaded)
       IN  IF quiz = None
             THEN /\ UNCHANGED quizzes
                  /\ Finish(r, "NotFound")
             ELSE /\ quizzes' = (quizzes \ quiz) \cup
                       { [Get(quiz) EXCEPT
                            !.is_published = Written(Some(TRUE),
                                                     old.is_published, @)] }
                  /\ Finish(r, "ok")
    /\ UNCHANGED <<clock, assignments, questions, question_options,
                   assignment_submissions, quiz_file_submissions,
                   quiz_attempts, quiz_answers, assignment_grades,
                   quiz_grades>>

\* QuestionCreate: the type, the marks and which of its two options is the
\* correct one.
QuestionCreate(question_type, marks, correct) ==
    [ question_type |-> question_type, marks |-> marks, correct |-> correct ]

CallAddQuestion(r, quiz_id, question_data, teacher) ==
    /\ req[r].pc = "idle"
    /\ req' = [req EXCEPT ![r] =
                 NewReq("add_question", "load", teacher, RoleOf(teacher),
                        quiz_id, "", question_data)]
    /\ UNCHANGED <<clock, tables>>

\* get_quiz_with_details, the checks and `len(quiz.questions) + 1`.
AddQuestionLoad(r) ==
    /\ At(r, "add_question", "load")
    /\ LET quiz == get_quiz_by_id(req[r].target)
       IN  IF quiz = None
             THEN Finish(r, "NotFound")
           ELSE IF NotOwner(Get(quiz), req[r].user_id)
             THEN Finish(r, "Forbidden")
           ELSE IF Get(quiz).is_published
             THEN Finish(r, "BadRequest")
           ELSE req' = [req EXCEPT
                          ![r].pc = "insert", ![r].loaded = quiz,
                          ![r].seen =
                              Some(Cardinality(QuestionsOf(req[r].target)) + 1)]
    /\ UNCHANGED <<clock, tables>>

\* The option rows of create_question: ids 10 r + 1 and 10 r + 2.
NewOptions(r) ==
    { NewOption(10 * r + idx, r, idx = req[r].data.correct) : idx \in {1, 2} }

\* QuizRepository.create_question and the commit.  The service returns a
\* dict with the key "message", and the controller's
\* `MessageResponse(success=True, message="Question added", **result)` then
\* raises TypeError (two values for the keyword message): the request ends
\* with the generic 500 response after the commit.
AddQuestionInsert(r) ==
    /\ At(r, "add_question", "insert")
    /\ IF uq_question_order(req[r].target, Get(req[r].seen))
         THEN /\ questions' = questions \cup
                   { NewQuestion(r, req[r].target, req[r].data.question_type,
                                 req[r].data.marks, Get(req[r].seen)) }
              /\ question_options' = question_options \cup NewOptions(r)
              /\ Finish(r, "TypeError")
         ELSE /\ UNCHANGED <<questions, question_options>>
              /\ Finish(r, "IntegrityError")
    /\ UNCHANGED <<clock, assignments, quizzes, assignment_submissions,
                   quiz_file_submissions, quiz_attempts, quiz_answers,
                   assignment_grades, quiz_grades>>

-----------------------------------------------------------------------------
(* Editing quizzes: teacher t1 has created the draft quiz 105, with one    *)
(* question, and the draft quiz 106, with none.  Teacher t2 owns neither.  *)

DraftQuiz(quiz_id) ==
    [ DigitalQuiz(quiz_id, Some(1)) EXCEPT !.is_published = FALSE ]

EditQuizIds == {105, 106}

UpdatePayloads ==
    { QuizUpdate(Some(TRUE), None), QuizUpdate(Some(FALSE), None),
      QuizUpdate(None, Some(2)), QuizUpdateNull({"is_published"}) }

QuestionPayloads ==
    { QuestionCreate("MCQ", 1, 1), QuestionCreate("TrueFalse", 2, 2) }

InitEdit ==
    /\ clock = 0
    /\ assignments = {}
    /\ quizzes = { DraftQuiz(105), DraftQuiz(106) }
    /\ questions = { NewQuestion(100, 105, "MCQ", 1, 1) }
    /\ question_options = { NewOption(1001, 100, TRUE),
                            NewOption(1002, 100, FALSE) }
    /\ assignment_submissions = {}
    /\ quiz_file_submissions = {}
    /\ quiz_attempts = {}
    /\ quiz_answers = {}
    /\ assignment_grades = {}
    /\ quiz_grades = {}
    /\ req = [r \in Req |-> Idle]

NextEdit ==
    \/ \E r \in Req, quiz_id \in EditQuizIds, update_data \in UpdatePayloads,
          teacher \in Teachers :
          CallUpdateQuiz(r, quiz_id, update_data, teacher)
    \/ \E r \in Req : UpdateQuizLoad(r)
    \/ \E r \in Req : UpdateQuizWrite(r)
    \/ \E r \in Req, quiz_id \in EditQuizIds, teacher \in Teachers :
          CallPublishQuiz(r, quiz_id, teacher)
    \/ \E r \in Req : PublishQuizLoad(r)
    \/ \E r \in Req : PublishQuizWrite(r)
    \/ \E r \in Req, quiz_id \in EditQuizIds,
          question_data \in QuestionPayloads, teacher \in Teachers :
          CallAddQuestion(r, quiz_id, question_data, teacher)
    \/ \E r \in Req : AddQuestionLoad(r)
    \/ \E r \in Req : AddQuestionInsert(r)

SpecEdit == InitEdit /\ [][NextEdit]_vars

-----------------------------------------------------------------------------
(* Claims about editing quizzes (SpecEdit) *)

\* C11: once a quiz is published its question set never changes: add_question
\* on a published quiz fails with BadRequest, and no step, however
\* add_question and publish_quiz interleave, adds a question to a quiz that
\* is published.
C11_PublishedQuestionsFrozen ==
    /\ [][ \A r \in Req :
             (/\ At(r, "add_question", "load")
              /\ req'[r] # req[r]
              /\ \E q \in get_quiz_by_id(req[r].target) :
                    q.is_published /\ q.created_by_id = req[r].user_id)
             => req'[r].result = "BadRequest" ]_vars
    /\ [][ \A q \in quizzes :
             q.is_published
             => { qn \in questions' : qn.quiz_id = q.quiz_id }
                    = QuestionsOf(q.quiz_id) ]_vars

\* C12: every published quiz has at least one question, and publish_quiz on
\* a quiz with no questions fails with BadRequest.
C12_PublishedHasQuestion ==
    /\ \A q \in quizzes : q.is_published => QuestionsOf(q.quiz_id) # {}
    /\ \A r \in Req :
          req[r].op = "publish_quiz" /\ req[r].result = "ok"
              => QuestionsOf(req[r].target) # {}

EditOps == {"update_quiz", "publish_quiz", "add_question"}

\* The request is of the creator of the quiz it names.
ByCreator(r) ==
    \E q \in quizzes :
        q.quiz_id = req[r].target /\ q.created_by_id = req[r].user_id

\* C20: only the creating teacher changes a quiz: publish_quiz, add_question
\* and update_quiz by another user fail with Forbidden and leave the quiz and
\* its questions as they are, and every step that changes a quiz or its
\* questions (a Draft -> Published transition included) is a step of a call
\* of the creator.
C20_OnlyCreatorChanges ==
    /\ [][ \A r \in Req :
             (/\ req[r].op \in EditOps /\ req[r].pc = "load"
              /\ req'[r] # req[r]
              /\ get_quiz_by_id(req[r].target) # None
              /\ ~ByCreator(r))
             => /\ req'[r].result = "Forbidden"
                /\ tables' = tables ]_vars
    /\ [][ <<quizzes, questions, question_options>>'
               # <<quizzes, questions, question_options>>
             => \E r \in Req : /\ req'[r] # req[r]
                               /\ req[r].op \in EditOps
                               /\ ByCreator(r) ]_vars

\* Teacher t2 has been refused on a quiz of t1 that the creator has published.
C20_Witness ==
    \E r1, r2 \in Req :
        /\ req[r1].op = "publish_quiz" /\ req[r1].result = "ok" /\ ByCreator(r1)
        /\ req[r2].op \in EditOps /\ req[r2].result = "Forbidden"
        /\ ~ByCreator(r2)
        /\ req[r2].target = req[r1].target

-----------------------------------------------------------------------------
(* Soft deletion and the availability of a quiz to start_quiz_attempt *)

\* QuizRepository.soft_delete_quiz and its caller's commit; on a quiz that
\* get_quiz_by_id does not find it raises NotFound and changes nothing.
SoftDeleteQuiz(quiz_id) ==
    /\ get_quiz_by_id(quiz_id) # None
    /\ quizzes' = (quizzes \ get_quiz_by_id(quiz_id)) \cup
          { [Get(get_quiz_by_id(quiz_id)) EXCEPT !.is_active = FALSE] }
    /\ UNCHANGED <<clock, assignments, questions, question_options,
                   assignment_submissions, quiz_file_submissions,
                   quiz_attempts, quiz_answers, assignment_grades,
                   quiz_grades, req>>

\* Starting attempts on the published quiz 101, which may get soft-deleted,
\* on the draft quiz 107 and on 999, which names no quiz.
StartQuizIds == {101, 107, 999}

InitStart ==
    /\ clock = 0
    /\ assignments = {}
    /\ quizzes = { DigitalQuiz(101, Some(2)), DraftQuiz(107) }
    /\ questions = {}
    /\ question_options = {}
    /\ assignment_submissions = {}
    /\ quiz_file_submissions = {}
    /\ quiz_attempts = {}
    /\ quiz_answers = {}
    /\ assignment_grades = {}
    /\ quiz_grades = {}
    /\ req = [r \in Req |-> Idle]

NextStart ==
    \/ Tick
    \/ SoftDeleteQuiz(101)
    \/ \E r \in Req, quiz_id \in StartQuizIds :
          CallStartQuizAttempt(r, quiz_id, "s1")
    \/ \E r \in Req : StartQuizAttemptLoad(r)
    \/ \E r \in Req : StartQuizAttemptCount(r)
    \/ \E r \in Req : StartAttemptLast(r)
    \/ \E r \in Req : StartAttemptInsert(r)

SpecStart == InitStart /\ [][NextStart]_vars

\* The quiz row a start_quiz_attempt call names is missing, soft-deleted or
\* unpublished.
QuizNotStartable(quiz_id) ==
    \A q \in quizzes :
        q.quiz_id = quiz_id => ~q.is_active \/ ~q.is_published

\* The quiz is there, active and published, and its deadline has passed.
QuizPastDeadline(quiz_id) ==
    \E q \in quizzes :
        /\ q.quiz_id = quiz_id /\ q.is_active /\ q.is_published
        /\ q.deadline < clock

\* C13: start_quiz_attempt fails with NotFound when the quiz is absent,
\* soft-deleted or not published and with BadRequest when now > deadline,
\* creating no attempt in either case; an attempt it creates is in progress:
\* is_completed = FALSE, submitted_at and score unset.
C13_StartAttemptChecks ==
    /\ [][ \A r \in Req :
             (At(r, "start_quiz_attempt", "load") /\ req'[r] # req[r])
             => /\ QuizNotStartable(req[r].target)
                     => req'[r].result = "NotFound" /\ tables' = tables
                /\ QuizPastDeadline(req[r].target)
                     => req'[r].result = "BadRequest" /\ tables' = tables
           ]_vars
    /\ [](\A r \in Req :
            req[r].op = "start_quiz_attempt"
            /\ req[r].result \in {"NotFound", "BadRequest"}
                => \A a \in quiz_attempts : a.attempt_id # r)
    /\ [][ \A a \in quiz_attempts' :
             a \notin quiz_attempts
             => /\ a.is_completed = FALSE
                /\ a.submitted_at = None
                /\ a.score = None
                /\ \E r \in Req : /\ At(r, "start_quiz_attempt", "insert")
                                  /\ req'[r].result = "ok"
                                  /\ a.attempt_id = r ]_vars

\* One call has been refused on the soft-deleted quiz after another started
\* an attempt of it, and attempts exist.
C13_Witness ==
    \E r1, r2 \in Req :
        /\ req[r1].op = "start_quiz_attempt" /\ req[r1].result = "ok"
        /\ req[r2].op = "start_quiz_attempt" /\ req[r2].result = "NotFound"
        /\ req[r2].target = 101
        /\ \E a \in quiz_attempts : a.attempt_id = r1 /\ ~a.is_completed

-----------------------------------------------------------------------------
(* Submitting files of every kind: student s1 hands in the own file f1,    *)
(* the file f2 of student s2, or f0, which names no file.                  *)

FileRefs == {"f0", "f1", "f2"}

NextFile ==
    \/ Tick
    \/ \E r \in Req, file_id \in FileRefs :
          CallSubmitAssignment(r, 100, "s1", file_id)
    \/ \E r \in Req : SubmitAssignmentLoad(r)
    \/ \E r \in Req : SubmitAssignmentExisting(r)
    \/ \E r \in Req : SubmitAssignmentInsert(r)
    \/ \E r \in Req, file_id \in FileRefs :
          CallSubmitFileQuiz(r, 100, "s1", file_id)
    \/ \E r \in Req : SubmitFileQuizLoad(r)
    \/ \E r \in Req : SubmitFileQuizExisting(r)
    \/ \E r \in Req : SubmitFileQuizInsert(r)

SpecFile == InitSubmit /\ [][NextFile]_vars

SubmitOps == {"submit_assignment", "submit_file_quiz"}

\* The file of a submission row is an uploaded file of the row's student.
OwnFile(sub) ==
    \E f \in uploaded_files :
        f.file_id = sub.submitted_file_id /\ f.uploaded_by = sub.student_id

\* The call is at the statement that looks its file up and has passed the
\* checks the service makes before it.
ChecksFile(r) ==
    \/ /\ At(r, "submit_assignment", "existing")
       /\ get_submission(req[r].target, req[r].user_id) = None
    \/ /\ At(r, "submit_file_quiz", "load")
       /\ \E q \in get_quiz_by_id(req[r].target) :
             q.quiz_type = "FileUpload" /\ ~(q.deadline < clock)

\* The request names a file that is missing or uploaded by someone else.
BadFileRef(r) ==
    \A f \in uploaded_files :
        f.file_id = req[r].file_id => f.uploaded_by # req[r].user_id

\* C14: every persisted file submission (assignment or FileUpload quiz)
\* references an uploaded file owned by the submitting student; a submit
\* call whose file is missing or owned by another user fails with Forbidden
\* at the file check, never succeeds and creates no submission.
C14_SubmittedFileOwned ==
    /\ [](/\ \A sub \in assignment_submissions : OwnFile(sub)
          /\ \A sub \in quiz_file_submissions : OwnFile(sub)
          /\ \A r \in Req :
                req[r].op \in SubmitOps /\ BadFileRef(r)
                    => /\ req[r].result # "ok"
                       /\ req[r].pc # "insert"
                       /\ \A sub \in assignment_submissions :
                             sub.submission_id # r
                       /\ \A sub \in quiz_file_submissions :
                             sub.submission_id # r)
    /\ [][ \A r \in Req :
             (ChecksFile(r) /\ req'[r] # req[r] /\ BadFileRef(r))
             => req'[r].result = "Forbidden" /\ tables' = tables ]_vars

\* A call with another student's file was refused with Forbidden, one with a
\* missing file too, and a call with the own file stored its submission.
C14_Witness ==
    \E r1, r2 \in Req :
        /\ req[r1].op \in SubmitOps /\ req[r1].result = "Forbidden"
        /\ req[r1].file_id \in {"f0", "f2"}
        /\ req[r2].op = req[r1].op /\ req[r2].result = "ok"
        /\ req[r2].file_id = "f1"

-----------------------------------------------------------------------------
(* Submitting the attempt of another student: s1 owns attempt 100 of quiz  *)
(* 101, s2 none; 999 names no attempt.                                     *)

OwnerAttemptIds == {100, 999}

OwnerAnswerLists == { <<>>, <<StudentAnswer(1, Some(11))>> }

NextOwner ==
    \/ Tick
    \/ \E r \in Req, attempt_id \in OwnerAttemptIds, student_id \in Students,
          answers \in OwnerAnswerLists :
          CallSubmitDigitalQuiz(r, attempt_id, student_id, answers)
    \/ \E r \in Req : SubmitDigitalQuizLoad(r)
    \/ \E r \in Req : SubmitAttempt(r)

SpecOwner == InitDigital /\ [][NextOwner]_vars

\* The attempt row a call names, if any.
AttemptOf(r) == { a \in quiz_attempts : a.attempt_id = req[r].target }

\* C15: submit_digital_quiz fails with NotFound when the attempt does not
\* exist and with Forbidden when it belongs to another student, leaving the
\* attempts and the answers as they are; an attempt is completed, and gets
\* answers, only through a call of the student who owns it.
C15_OnlyOwnerSubmits ==
    /\ [][ \A r \in Req :
             (At(r, "submit_digital_quiz", "load") /\ req'[r] # req[r])
             => /\ AttemptOf(r) = None
                     => req'[r].result = "NotFound" /\ tables' = tables
                /\ (\E a \in AttemptOf(r) : a.student_id # req[r].user_id)
                     => req'[r].result = "Forbidden" /\ tables' = tables
           ]_vars
    /\ [][ \A a \in quiz_attempts :
             (\/ a \notin quiz_attempts'
              \/ AnswersOf(a.attempt_id, quiz_answers')
                    # AnswersOf(a.attempt_id, quiz_answers))
             => \E r \in Req : /\ req'[r] # req[r]
                               /\ req[r].op = "submit_digital_quiz"
                               /\ req[r].target = a.attempt_id
                               /\ req[r].user_id = a.student_id ]_vars

\* Student s2 was refused on the attempt of s1, a call on a missing attempt
\* got NotFound, and the attempt is still in progress.
C15_Witness ==
    \E r1, r2 \in Req :
        /\ req[r1].op = "submit_digital_quiz" /\ req[r1].result = "Forbidden"
        /\ req[r1].user_id = "s2" /\ req[r1].target = 100
        /\ req[r2].op = "submit_digital_quiz" /\ req[r2].result = "NotFound"
        /\ TheAttempt \in quiz_attempts

-----------------------------------------------------------------------------
(* Claims about the checks of grading (SpecGrade) *)

GradeOps == {"grade_assignment", "grade_quiz"}

\* The source a grading call names does not exist.
SourceAbsent(r) ==
    IF req[r].op = "grade_assignment"
      THEN get_submission_by_id(req[r].target) = None
    ELSE IF req[r].file_id = "digital"
      THEN \A a \in quiz_attempts : a.attempt_id # req[r].target
    ELSE \A f \in quiz_file_submissions : f.submission_id # req[r].target

\* C16: grade_assignment and grade_quiz fail with Forbidden for a grader
\* role outside {Professor, AssociateTeacher} and with NotFound when the
\* source does not exist, and every Grade has a grader role in that set.
C16_GraderRoleAndSource ==
    /\ \A r \in Req :
          req[r].op \in GradeOps /\ Done(r)
              => /\ req[r].role \notin TeacherRoles
                      => req[r].result = "Forbidden"
                 /\ req[r].role \in TeacherRoles /\ SourceAbsent(r)
                      => req[r].result = "NotFound"
    /\ \A g \in assignment_grades \cup quiz_grades :
          g.graded_by_role \in TeacherRoles

\* C17: a grading call that carries a feedback file succeeds only if the
\* file exists and is owned by the grader, for assignment grading and for
\* both quiz grading targets; otherwise it fails with Forbidden and creates
\* no Grade.
C17_FeedbackFileOwned ==
    \A r \in Req :
        (/\ req[r].op \in GradeOps /\ Done(r)
         /\ req[r].data.feedback_file_id # None
         /\ InvalidFile(Get(req[r].data.feedback_file_id), req[r].user_id))
        => /\ req[r].result # "ok"
           /\ \A g \in assignment_grades \cup quiz_grades : g.grade_id # r
           /\ ~SourceAbsent(r)
              /\ GradesOfSource(req[r].op, req[r].file_id, req[r].target) = None
                => req[r].result = "Forbidden"

-----------------------------------------------------------------------------
(* Claims about failed operations *)

\* The request returns in this step, and returns a failure.
Fails(r) ==
    /\ req[r].pc # "done"
    /\ req'[r].pc = "done"
    /\ req'[r].result # "ok"

\* C18: every mutating operation is all-or-nothing: a call that returns a
\* failure leaves the persisted quizzes, questions, submissions, attempts,
\* answers and grades exactly as they were.
C18_FailureChangesNothing ==
    [][ \A r \in Req : Fails(r) => tables' = tables ]_vars

-----------------------------------------------------------------------------
(* Soft deletion of the assignment and of the file quiz, and the file      *)
(* submissions that come after it                                          *)

CallDeleteAssignment(r, assignment_id, teacher) ==
    /\ req[r].pc = "idle"
    /\ req' = [req EXCEPT ![r] =
                 NewReq("delete_assignment", "delete", teacher,
                        RoleOf(teacher), assignment_id, "f0", None)]
    /\ UNCHANGED <<clock, tables>>

\* delete_assignment: 404 unless get_assignment_by_id finds the assignment
\* and the caller created it; otherwise is_active = False and the commit.
DeleteAssignment(r) ==
    /\ At(r, "delete_assignment", "delete")
    /\ LET assignment == get_assignment_by_id(req[r].target)
       IN  IF assignment = None \/ Get(assignment).created_by_id # req[r].user_id
             THEN /\ Finish(r, "NotFound")
                  /\ UNCHANGED assignments
             ELSE /\ assignments' = (assignments \ assignment) \cup
                        { [Get(assignment) EXCEPT !.is_active = FALSE] }
                  /\ Finish(r, "ok")
    /\ UNCHANGED <<clock, quizzes, questions, question_options,
                   assignment_submissions, quiz_file_submissions,
                   quiz_attempts, quiz_answers, assignment_grades,
                   quiz_grades>>

NextDelete ==
    \/ \E r \in Req, teacher \in {"t1", "t2"} :
          CallDeleteAssignment(r, 100, teacher)
    \/ \E r \in Req : DeleteAssignment(r)
    \/ SoftDeleteQuiz(100)
    \/ \E r \in Req : CallSubmitAssignment(r, 100, "s1", "f1")
    \/ \E r \in Req : SubmitAssignmentLoad(r)
    \/ \E r \in Req : SubmitAssignmentExisting(r)
    \/ \E r \in Req : SubmitAssignmentInsert(r)
    \/ \E r \in Req : CallSubmitFileQuiz(r, 100, "s1", "f1")
    \/ \E r \in Req : SubmitFileQuizLoad(r)
    \/ \E r \in Req : SubmitFileQuizExisting(r)
    \/ \E r \in Req : SubmitFileQuizInsert(r)

SpecDelete == InitSubmit /\ [][NextDelete]_vars

\* The assessment the request names has been soft-deleted.
TargetDeleted(r) ==
    IF req[r].op = "submit_assignment"
      THEN \E a \in assignments :
              a.assignment_id = req[r].target /\ ~a.is_active
      ELSE \E q \in quizzes : q.quiz_id = req[r].target /\ ~q.is_active

\* C19: only the creating teacher deletes an assessment, a soft-deleted
\* assessment never becomes active again, and a file submission that looks
\* a soft-deleted assessment up fails with NotFound and changes nothing.
C19_DeletedIsTerminal ==
    [][ /\ \A r \in Req :
              (/\ At(r, "delete_assignment", "delete") /\ req'[r].pc = "done"
               /\ assignments' # assignments)
                  => \E a \in assignments :
                        /\ a.assignment_id = req[r].target
                        /\ a.created_by_id = req[r].user_id
        /\ \A a \in assignments : ~a.is_active => a \in assignments'
        /\ \A q \in quizzes : ~q.is_active => q \in quizzes'
        /\ \A r \in Req :
              (/\ req[r].op \in SubmitOps
               /\ req[r].pc = "load" /\ req'[r].pc # "load"
               /\ TargetDeleted(r))
              => /\ req'[r].result = "NotFound"
                 /\ tables' = tables
      ]_vars

-----------------------------------------------------------------------------
(* Grading the attempt 100 of student s1 while it is in progress and after *)
(* it has been submitted                                                   *)

NextGradeAttempt ==
    \/ \E r \in Req, answers \in OwnerAnswerLists :
          CallSubmitDigitalQuiz(r, 100, "s1", answers)
    \/ \E r \in Req : SubmitDigitalQuizLoad(r)
    \/ \E r \in Req : SubmitAttempt(r)
    \/ \E r \in Req, grade_data \in GradePayloads, teacher \in Teachers :
          CallGradeQuiz(r, 100, "digital", grade_data, teacher)
    \/ \E r \in Req : GradeQuiz(r)

SpecGradeAttempt == InitDigital /\ [][NextGradeAttempt]_vars

\* C21: grade_quiz on an attempt that is still in progress is rejected, and
\* no attempt that was never submitted has a grade.  (An attempt never
\* returns to in progress, so a grade_quiz call that succeeded on an attempt
\* that is in progress now was made while it was in progress.)
C21_GradeOnlyCompletedAttempt ==
    /\ \A r \in Req :
          (/\ req[r].op = "grade_quiz" /\ Done(r)
           /\ \E a \in AttemptOf(r) : ~a.is_completed)
          => req[r].result # "ok"
    /\ \A a \in quiz_attempts :
          GradeOfAttempt(a.attempt_id) # None => a.is_completed

-----------------------------------------------------------------------------
(* Student work on draft quizzes: the draft digital quiz 107 and the draft *)
(* file quiz 108, next to the published quizzes 101 and 100                *)

DraftFileQuiz(quiz_id) ==
    [ TheFileQuiz EXCEPT !.quiz_id = quiz_id, !.is_published = FALSE ]

InitDraft ==
    /\ clock = 0
    /\ assignments = {}
    /\ quizzes = { DigitalQuiz(101, Some(1)), DraftQuiz(107), TheFileQuiz,
                   DraftFileQuiz(108) }
    /\ questions = {}
    /\ question_options = {}
    /\ assignment_submissions = {}
    /\ quiz_file_submissions = {}
    /\ quiz_attempts = {}
    /\ quiz_answers = {}
    /\ assignment_grades = {}
    /\ quiz_grades = {}
    /\ req = [r \in Req |-> Idle]

NextDraft ==
    \/ \E r \in Req, quiz_id \in {101, 107} :
          CallStartQuizAttempt(r, quiz_id, "s1")
    \/ \E r \in Req : StartQuizAttemptLoad(r)
    \/ \E r \in Req : StartQuizAttemptCount(r)
    \/ \E r \in Req : StartAttemptLast(r)
    \/ \E r \in Req : StartAttemptInsert(r)
    \/ \E r \in Req, quiz_id \in {100, 108} :
          CallSubmitFileQuiz(r, quiz_id, "s1", "f1")
    \/ \E r \in Req : SubmitFileQuizLoad(r)
    \/ \E r \in Req : SubmitFileQuizExisting(r)
    \/ \E r \in Req : SubmitFileQuizInsert(r)

SpecDraft == InitDraft /\ [][NextDraft]_vars

IsDraft(quiz_id) ==
    \E q \in quizzes : q.quiz_id = quiz_id /\ ~q.is_published

\* C22: no attempt and no quiz file submission is created for a quiz that is
\* a draft at the time of the call: start_quiz_attempt and submit_file_quiz
\* on a draft quiz fail and persist nothing.  (No quiz changes in SpecDraft,
\* so a quiz that is a draft now was one at the time of every call.)
C22_NoWorkOnDraft ==
    /\ \A a \in quiz_attempts : ~IsDraft(a.quiz_id)
    /\ \A f \in quiz_file_submissions : ~IsDraft(f.quiz_id)
    /\ \A r \in Req :
          (/\ req[r].op \in {"start_quiz_attempt", "submit_file_quiz"}
           /\ Done(r) /\ IsDraft(req[r].target))
          => req[r].result # "ok"

-----------------------------------------------------------------------------
(* Claims about publication (SpecEdit) *)

\* The committed row of the quiz is active and published.
IsPublished(quiz_id) ==
    \E q \in get_quiz_by_id(quiz_id) : q.is_published

\* C23: publication is monotone: a published quiz stays published in every
\* step, whatever update_quiz payload is written; update_quiz by the creator
\* with is_published = false on a published quiz fails with BadRequest and
\* changes nothing.
C23_PublicationMonotone ==
    [][ /\ \A q \in quizzes : q.is_published =>
              \A p \in quizzes' : p.quiz_id = q.quiz_id => p.is_published
        /\ \A r \in Req :
              (/\ At(r, "update_quiz", "load") /\ req'[r] # req[r]
               /\ req[r].data.is_published = Some(FALSE)
               /\ IsPublished(req[r].target)
               /\ req[r].user_id = "t1")
              => /\ req'[r].result = "BadRequest"
                 /\ tables' = tables
      ]_vars

\* An unpublishing update_quiz was refused on a published quiz, and another
\* update_quiz went through on a quiz that is published.
C23_Witness ==
    \E r1, r2 \in Req :
        /\ req[r1].op = "update_quiz" /\ req[r1].result = "BadRequest"
        /\ req[r1].data.is_published = Some(FALSE)
        /\ req[r2].op = "update_quiz" /\ req[r2].result = "ok"
        /\ req[r2].target = req[r1].target
        /\ IsPublished(req[r1].target)

-----------------------------------------------------------------------------
(* Claims about the answer rows (SpecDigital) *)

\* The selected option of the row is the correct option of the question.
SelectedIsCorrect(row, question) ==
    \E o \in question_options :
        /\ Some(o.option_id) = row.selected_option_id
        /\ o.question_id = question.question_id
        /\ o.is_correct

\* C24: every QuizAnswer row carries the specified grading of its question
\* and answer: for MCQ and TrueFalse, is_correct is true when the selected
\* option is the correct option of that same question and false otherwise,
\* and awarded_marks is the question's marks when correct and 0 otherwise;
\* for Paragraph, is_correct is unset.
C24_AnswerGrading ==
    \A row \in quiz_answers : \A question \in get_question_by_id(row.question_id) :
        IF question.question_type \in {"MCQ", "TrueFalse"}
          THEN /\ row.is_correct = Some(SelectedIsCorrect(row, question))
               /\ row.awarded_marks =
                    IF SelectedIsCorrect(row, question) THEN question.marks ELSE 0
          ELSE row.is_correct = None

-----------------------------------------------------------------------------
(* Claims about the order of the questions (SpecEdit) *)

OrderNumbers(quiz_id) == { q.order_number : q \in QuestionsOf(quiz_id) }

\* C25: in every state the order numbers of the questions of a quiz are
\* exactly 1..n, n the number of its questions: unique and contiguous, also
\* when two add_question calls read the question count before either
\* commits.
C25_OrderContiguous ==
    \A quiz \in quizzes :
        /\ OrderNumbers(quiz.quiz_id) = 1 .. Cardinality(QuestionsOf(quiz.quiz_id))
        /\ \A p, q \in QuestionsOf(quiz.quiz_id) :
              p.order_number = q.order_number => p = q

\* Two add_question calls on one quiz computed the same order number; one
\* committed its question, the other hit the unique constraint.
C25_Witness ==
    \E r1, r2 \in Req :
        /\ r1 # r2
        /\ req[r1].op = "add_question" /\ req[r2].op = "add_question"
        /\ req[r1].target = req[r2].target
        /\ req[r1].seen = req[r2].seen
        /\ \E q \in questions : q.question_id = r1
        /\ req[r2].result = "IntegrityError"

-----------------------------------------------------------------------------
(* Two students at work on the same assessments: the assignment 100, the   *)
(* file quiz 100 and the digital quiz 101 (two attempts allowed), on which *)
(* s1 has the attempt 100 in progress and s2 the attempt 200.              *)

InitPairs ==
    /\ clock = 0
    /\ assignments = {TheAssignment}
    /\ quizzes = { TheFileQuiz, DigitalQuiz(101, Some(2)),
                   DigitalQuiz(104, Some(1)) }
    /\ questions = TheQuestions
    /\ question_options = TheOptions
    /\ assignment_submissions = {}
    /\ quiz_file_submissions = {}
    /\ quiz_attempts = { TheAttempt,
                         [TheAttempt EXCEPT !.attempt_id = 200,
                                            !.student_id = "s2"] }
    /\ quiz_answers = {}
    /\ assignment_grades = {}
    /\ quiz_grades = {}
    /\ req = [r \in Req |-> Idle]

NextPairs ==
    \/ \E r \in Req, student_id \in Students, file_id \in SubmitFiles :
          CallSubmitAssignment(r, 100, student_id, file_id)
    \/ \E r \in Req : SubmitAssignmentLoad(r)
    \/ \E r \in Req : SubmitAssignmentExisting(r)
    \/ \E r \in Req : SubmitAssignmentInsert(r)
    \/ \E r \in Req, student_id \in Students, file_id \in SubmitFiles :
          CallSubmitFileQuiz(r, 100, student_id, file_id)
    \/ \E r \in Req : SubmitFileQuizLoad(r)
    \/ \E r \in Req : SubmitFileQuizExisting(r)
    \/ \E r \in Req : SubmitFileQuizInsert(r)
    \/ \E r \in Req, student_id \in Students :
          CallStartQuizAttempt(r, 101, student_id)
    \/ \E r \in Req : StartQuizAttemptLoad(r)
    \/ \E r \in Req : StartQuizAttemptCount(r)
    \/ \E r \in Req : StartAttemptLast(r)
    \/ \E r \in Req : StartAttemptInsert(r)
    \/ \E r \in Req, attempt_id \in {100, 200}, student_id \in Students,
          answers \in OwnerAnswerLists :
          CallSubmitDigitalQuiz(r, attempt_id, student_id, answers)
    \/ \E r \in Req : SubmitDigitalQuizLoad(r)
    \/ \E r \in Req : SubmitAttempt(r)

SpecPairs == InitPairs /\ [][NextPairs]_vars

PairOps ==
    {"submit_assignment", "submit_file_quiz", "start_quiz_attempt",
     "submit_digital_quiz"}

\* The pair an attempt belongs to.
PairOfAttempt(attempt_id) ==
    LET a == CHOOSE a \in quiz_attempts : a.attempt_id = attempt_id
    IN  <<"quiz", a.quiz_id, a.student_id>>

\* The (assessment, student) pair a call works for: the assessment it names
\* (for submit_digital_quiz, the quiz of the attempt) and the caller.
PairOf(r) ==
    IF req[r].op = "submit_assignment"
      THEN <<"assignment", req[r].target, req[r].user_id>>
    ELSE IF req[r].op = "submit_digital_quiz"
      THEN <<"quiz", PairOfAttempt(req[r].target)[2], req[r].user_id>>
    ELSE <<"quiz", req[r].target, req[r].user_id>>

\* The outcome of the call when it runs alone from the initial state.
OutcomeAlone(r) ==
    IF req[r].op \in SubmitOps
      THEN IF InvalidFile(req[r].file_id, req[r].user_id)
             THEN "Forbidden" ELSE "ok"
    ELSE IF req[r].op = "submit_digital_quiz"
      THEN IF PairOfAttempt(req[r].target)[3] # req[r].user_id
             THEN "Forbidden" ELSE "ok"
    ELSE "ok"

\* Every other call that has been made works for another pair.
OnlyOfItsPair(r) ==
    \A r2 \in Req \ {r} :
        req[r2].op \in PairOps => PairOf(r2) # PairOf(r)

\* C26: operations on different (assessment, student) pairs are
\* independent: a step creates, changes or removes student work of the pair
\* of the request that takes it only, and a call that is the only one of
\* its pair ends as it does when it runs alone, whatever the calls for other
\* pairs do in between.
C26_PairsIndependent ==
    /\ [][ \E r \in Req :
             /\ req'[r] # req[r]
             /\ \A s \in (assignment_submissions' \ assignment_submissions)
                     \cup (assignment_submissions \ assignment_submissions') :
                  <<"assignment", s.assignment_id, s.student_id>> = PairOf(r)
             /\ \A s \in (quiz_file_submissions' \ quiz_file_submissions)
                     \cup (quiz_file_submissions \ quiz_file_submissions') :
                  <<"quiz", s.quiz_id, s.student_id>> = PairOf(r)
             /\ \A a \in (quiz_attempts' \ quiz_attempts)
                     \cup (quiz_attempts \ quiz_attempts') :
                  <<"quiz", a.quiz_id, a.student_id>> = PairOf(r)
             /\ \A w \in (quiz_answers' \ quiz_answers)
                     \cup (quiz_answers \ quiz_answers') :
                  PairOfAttempt(w.attempt_id) = PairOf(r)
             /\ assignment_grades' = assignment_grades
             /\ quiz_grades' = quiz_grades
         ]_vars
    /\ [](\A r \in Req :
            Done(r) /\ OnlyOfItsPair(r) => req[r].result = OutcomeAlone(r))

\* Both students have handed in their file for the file quiz.
C26_Witness ==
    \E r1, r2 \in Req :
        /\ req[r1].op = "submit_file_quiz" /\ req[r1].user_id = "s1"
        /\ req[r2].op = "submit_file_quiz" /\ req[r2].user_id = "s2"
        /\ req[r1].result = "ok" /\ req[r2].result = "ok"
        /\ \E s1, s2 \in quiz_file_submissions :
              s1.student_id = "s1" /\ s2.student_id = "s2"

-----------------------------------------------------------------------------
(* The score against the marks of the quiz: quiz 101 holds the MCQ         *)
(* question 1 worth 1 mark, quiz 104 the TrueFalse question 3 worth 2      *)
(* marks; the attempt 100 of s1 is an attempt of quiz 101.                 *)

InitScore ==
    /\ clock = 0
    /\ assignments = {}
    /\ quizzes = { DigitalQuiz(101, Some(1)), DigitalQuiz(104, Some(1)) }
    /\ questions = { NewQuestion(1, 101, "MCQ", 1, 1),
                     NewQuestion(3, 104, "TrueFalse", 2, 1) }
    /\ question_options = TheOptions
    /\ assignment_submissions = {}
    /\ quiz_file_submissions = {}
    /\ quiz_attempts = {TheAttempt}
    /\ quiz_answers = {}
    /\ assignment_grades = {}
    /\ quiz_grades = {}
    /\ req = [r \in Req |-> Idle]

NextScore ==
    \/ \E r \in Req, answers \in AnswerLists :
          CallSubmitDigitalQuiz(r, 100, "s1", answers)
    \/ \E r \in Req : SubmitDigitalQuizLoad(r)
    \/ \E r \in Req : SubmitAttempt(r)

SpecScore == InitScore /\ [][NextScore]_vars

\* C27: the score of every completed attempt lies between 0 and the sum of
\* the marks of all questions of the attempt's own quiz, whatever answers
\* the student sent.
C27_ScoreWithinQuizMarks ==
    \A a \in quiz_attempts :
        a.is_completed =>
            /\ a.score # None
            /\ 0 <= Get(a.score)
            /\ Get(a.score) <= SumMarks(QuestionsOf(a.quiz_id))

-----------------------------------------------------------------------------
(* QuizService.get_student_quiz_view *)

\* `max((a.score for a in attempts if a.score), default=None)`
BestScore(attempts) ==
    LET scores == { Get(a.score) : a \in { b \in attempts : Truthy(b.score) } }
    IN  IF scores = {} THEN None
        ELSE Some(CHOOSE n \in scores : \A k \in scores : k <= n)

\* `not quiz.max_attempts or len(attempts) <= quiz.max_attempts`
CanAttempt_inclusive(quiz, attempts) ==
    \/ ~Truthy(quiz.max_attempts)
    \/ Cardinality(attempts) <= Get(quiz.max_attempts)

\* `not quiz.max_attempts or len(attempts) < quiz.max_attempts`
CanAttempt(quiz, attempts) ==
    \/ ~Truthy(quiz.max_attempts)
    \/ Cardinality(attempts) < Get(quiz.max_attempts)

\* The fields of QuizStudentView that the service computes.
QuizStudentView(quiz, attempts) ==
    [ quiz_id |-> quiz.quiz_id,
      has_attempted |-> Cardinality(attempts) > 0,
      best_score |-> BestScore(attempts),
      attempts_used |-> Cardinality(attempts),
      can_attempt |-> CanAttempt(quiz, attempts) ]

CallGetStudentQuizView(r, quiz_id, student_id) ==
    /\ req[r].pc = "idle"
    /\ req' = [req EXCEPT ![r] =
                 NewReq("get_student_quiz_view", "load", student_id, "Student",
                        quiz_id, "", None)]
    /\ UNCHANGED <<clock, tables>>

\* get_quiz_by_id
GetStudentQuizViewLoad(r) ==
    /\ At(r, "get_student_quiz_view", "load")
    /\ LET quiz == get_quiz_by_id(req[r].target)
       IN  IF quiz = None
             THEN Finish(r, "NotFound")
             ELSE req' = [req EXCEPT ![r].pc = "view", ![r].loaded = quiz]
    /\ UNCHANGED <<clock, tables>>

\* get_student_attempts_for_quiz and the view that is returned (kept in seen).
GetStudentQuizView(r) ==
    /\ At(r, "get_student_quiz_view", "view")
    /\ req' = [req EXCEPT
                 ![r].pc = "done", ![r].result = "ok",
                 ![r].seen = Some(QuizStudentView(Get(req[r].loaded),
                     get_student_attempts_for_quiz(req[r].target,
                                                   req[r].user_id)))]
    /\ UNCHANGED <<clock, tables>>

-----------------------------------------------------------------------------
(* The student view next to start_quiz_attempt: quiz 102 allows two        *)
(* attempts, quiz 103 has max_attempts unset; student s1 starts with none, *)
(* some or all of four earlier attempts.                                   *)

EarlierAttempt(attempt_id, quiz_id, attempt_number, score) ==
    [ attempt_id |-> attempt_id, quiz_id |-> quiz_id, student_id |-> "s1",
      attempt_number |-> attempt_number,
      submitted_at |-> IF score = None THEN None ELSE Some(0),
      score |-> score, is_completed |-> score # None ]

\* The attempts of s1 before the calls: completed ones with score 0 or 2 and
\* one in progress, numbered from 1 for each quiz.
EarlierAttempts ==
    { {},
      { EarlierAttempt(100, 102, 1, Some(0)) },
      { EarlierAttempt(100, 102, 1, None) },
      { EarlierAttempt(100, 102, 1, Some(0)),
        EarlierAttempt(200, 102, 2, Some(2)) },
      { EarlierAttempt(100, 102, 1, Some(0)),
        EarlierAttempt(200, 102, 2, None) },
      { EarlierAttempt(300, 103, 1, Some(2)),
        EarlierAttempt(400, 103, 2, Some(1)) },
      { EarlierAttempt(100, 102, 1, Some(2)),
        EarlierAttempt(300, 103, 1, Some(0)),
        EarlierAttempt(400, 103, 2, Some(0)) } }

\* Quiz 102 holds one MCQ question worth 2 marks, quiz 103 two worth 1 mark.
ViewQuestions ==
    { NewQuestion(1, 102, "MCQ", 2, 1), NewQuestion(2, 103, "MCQ", 1, 1),
      NewQuestion(3, 103, "MCQ", 1, 2) }

\* The answer rows behind the scores: the attempt answered the first
\* questions of its quiz rightly, as many as its score takes; an attempt
\* with score 0 was handed in empty.
EarlierAnswers(attempts) ==
    { [ attempt_id |-> x[1].attempt_id, question_id |-> x[2].question_id,
        selected_option_id |-> Some(10 * x[2].question_id + 1),
        awarded_marks |-> x[2].marks, is_correct |-> Some(TRUE) ] :
        x \in { y \in attempts \X ViewQuestions :
                  /\ Truthy(y[1].score)
                  /\ y[2].quiz_id = y[1].quiz_id
                  /\ y[2].order_number <= Get(y[1].score) } }

ViewQuizIds == {102, 103, 999}

InitView ==
    /\ clock = 0
    /\ assignments = {}
    /\ quizzes = { DigitalQuiz(102, Some(2)), DigitalQuiz(103, None) }
    /\ questions = ViewQuestions
    /\ question_options = { NewOption(10 * q + i, q, i = 1) :
                              q \in {1, 2, 3}, i \in {1, 2} }
    /\ assignment_submissions = {}
    /\ quiz_file_submissions = {}
    /\ quiz_attempts \in EarlierAttempts
    /\ quiz_answers = EarlierAnswers(quiz_attempts)
    /\ assignment_grades = {}
    /\ quiz_grades = {}
    /\ req = [r \in Req |-> Idle]

NextView ==
    \/ \E r \in Req, quiz_id \in ViewQuizIds :
          CallGetStudentQuizView(r, quiz_id, "s1")
    \/ \E r \in Req : GetStudentQuizViewLoad(r)
    \/ \E r \in Req : GetStudentQuizView(r)
    \/ \E r \in Req, quiz_id \in ViewQuizIds :
          CallStartQuizAttempt(r, quiz_id, "s1")
    \/ \E r \in Req : StartQuizAttemptLoad(r)
    \/ \E r \in Req : StartQuizAttemptCount(r)
    \/ \E r \in Req : StartAttemptLast(r)
    \/ \E r \in Req : StartAttemptInsert(r)

SpecView == InitView /\ [][NextView]_vars

\* The request returns its view in this step.
Views(r) == At(r, "get_student_quiz_view", "view") /\ req'[r].pc = "done"

\* C28: the student view agrees with the attempt limiter: attempts_used is
\* the number of the student's attempts for the quiz, and can_attempt is
\* true exactly when start_quiz_attempt by that student in that state would
\* not raise the max-attempts Conflict; with max_attempts unset can_attempt
\* is always true and no start_quiz_attempt ends with Conflict.
C28_ViewAgreesWithLimiter ==
    /\ [][ \A r \in Req : Views(r) =>
             LET view == Get(req'[r].seen)
                 quiz == Get(get_quiz_by_id(req[r].target))
                 attempts == get_student_attempts_for_quiz(req[r].target,
                                                           req[r].user_id)
             IN  /\ view.attempts_used = Cardinality(attempts)
                 /\ view.can_attempt = ~MaxAttemptsReached(quiz, attempts)
                 /\ quiz.max_attempts = None => view.can_attempt
         ]_vars
    /\ [](\A r \in Req :
            req[r].op = "start_quiz_attempt" /\ req[r].result = "Conflict"
                => \E q \in quizzes :
                      q.quiz_id = req[r].target /\ q.max_attempts # None)

\* A view of the full quiz 102 said can_attempt = false, and a
\* start_quiz_attempt on it ended with Conflict.
C28_Witness ==
    \E r1, r2 \in Req :
        /\ req[r1].op = "get_student_quiz_view" /\ req[r1].result = "ok"
        /\ Get(req[r1].seen).attempts_used = 2
        /\ ~Get(req[r1].seen).can_attempt
        /\ req[r2].op = "start_quiz_attempt" /\ req[r2].result = "Conflict"
        /\ req[r2].target = req[r1].target

\* The scores of the student's attempts that have one.
ScoresOf(attempts) ==
    { Get(a.score) : a \in { b \in attempts : b.score # None } }

\* C29: best_score of the student view is the maximum score over the
\* student's attempts that have a score, and is unset exactly when no
\* attempt of the student has a score.
C29_BestScoreIsMax ==
    [][ \A r \in Req : Views(r) =>
          LET view == Get(req'[r].seen)
              scores == ScoresOf(get_student_attempts_for_quiz(
                                     req[r].target, req[r].user_id))
          IN  /\ view.best_score = None <=> scores = {}
              /\ view.best_score # None =>
                    /\ Get(view.best_score) \in scores
                    /\ \A k \in scores : k <= Get(view.best_score)
      ]_vars

-----------------------------------------------------------------------------
(* Handing in the attempt 100 of s1 while time passes and the quiz 101 is  *)
(* soft-deleted                                                            *)

\* QuizAttemptCreate.answers: none, one right answer, and two answers to
\* question 1.
LateAnswerLists ==
    OwnerAnswerLists \cup
    { <<StudentAnswer(1, Some(11)), StudentAnswer(1, Some(12))>> }

NextLate ==
    \/ Tick
    \/ SoftDeleteQuiz(101)
    \/ \E r \in Req, answers \in LateAnswerLists :
          CallSubmitDigitalQuiz(r, 100, "s1", answers)
    \/ \E r \in Req : SubmitDigitalQuizLoad(r)
    \/ \E r \in Req : SubmitAttempt(r)

SpecLate == InitDigital /\ [][NextLate]_vars

\* The attempt the call names exists, is in progress and is the caller's.
OwnInProgress(r) ==
    \E a \in AttemptOf(r) : ~a.is_completed /\ a.student_id = req[r].user_id

\* C30: submit_digital_quiz by the owner of an existing attempt that is not
\* completed succeeds, whatever has happened to the quiz since the attempt
\* started: no step of the call that finds the attempt in progress ends the
\* call with a failure.
C30_OwnerCanComplete ==
    [][ \A r \in Req :
          (/\ req[r].op = "submit_digital_quiz" /\ req'[r] # req[r]
           /\ req[r].pc # "idle"
           /\ OwnInProgress(r))
          => req'[r].result \in {"none", "ok"}
      ]_vars

====
